---- MODULE Spec2Model ----
(***************************************************************************)
(* Outline web clipper: the image re-upload pipeline of                    *)
(* OutlineClient (uploadImage, processImagesInContent,                     *)
(* replaceImageUrlInContent), the persisted upload state                   *)
(* (UploadStateStorage), processClip of the background script and the      *)
(* link/embed classifier (LinkProcessor).                                   *)
(*                                                                         *)
(* Texts (document bodies, URLs) are sequences of one-character strings.   *)
(***************************************************************************)
EXTENDS Integers, Sequences, FiniteSets, TLC

VARIABLES
    store,      \* chrome.storage.local[outline_clipper_upload_state], or NoState
    now,        \* Date.now(), a logical clock read by setState's startTime
    clip,       \* one record per clip operation (processClip call)
    stopper,    \* one record per UI surface that can call requestStop
    recentClips,\* chrome.storage.local.recentClips, most recent first
    lp,         \* the link processor's run: [phase, link, context, input, output]
    ce,         \* a run of a ContentExtractor conversion: [op, phase, input, base, output, again]
    msg,        \* per runtime message listener, the message it is handling and its replies
    sel,        \* the OutlineClipper's element-selection mode and its click handlers
    dt          \* a getCollectionDocuments call: the documents listed and its result

vars == <<store, now, clip, stopper, recentClips, lp, ce, msg, sel, dt>>

(***************************************************************************)
(* Text primitives (JavaScript String methods on sequences of characters). *)
(***************************************************************************)

\* s.startsWith(u, k-1): u occurs in s at (1-based) position k
IsAt(s, u, k) ==
    /\ k >= 1
    /\ k + Len(u) - 1 <= Len(s)
    /\ \A j \in 1..Len(u) : s[k + j - 1] = u[j]

\* s.includes(u); the empty string is included in every string
Includes(s, u) == \E k \in 1..(Len(s) + 1) : IsAt(s, u, k)

\* s.startsWith(u)
StartsWith(s, u) == IsAt(s, u, 1)

\* s.indexOf(u, from-1) + 1, or 0 when u does not occur at or after from
IndexOf(s, u, from) ==
    IF \E k \in from..(Len(s) + 1) : IsAt(s, u, k)
    THEN CHOOSE k \in from..(Len(s) + 1) :
            /\ IsAt(s, u, k)
            /\ \A m \in from..(k - 1) : ~IsAt(s, u, m)
    ELSE 0

\* s.substring(k-1): the rest of s from position k
Rest(s, k) == SubSeq(s, k, Len(s))

\* s.split(u) for a non-empty separator u: the pieces between the leftmost,
\* non-overlapping occurrences of u
RECURSIVE Split(_, _)
Split(s, u) ==
    LET k == IndexOf(s, u, 1)
    IN  IF k = 0 THEN <<s>>
        ELSE <<SubSeq(s, 1, k - 1)>> \o Split(Rest(s, k + Len(u)), u)

\* pieces.join(h)
RECURSIVE Join(_, _)
Join(pieces, h) ==
    IF Len(pieces) = 0 THEN <<>>
    ELSE IF Len(pieces) = 1 THEN pieces[1]
    ELSE pieces[1] \o h \o Join(Tail(pieces), h)

\* String.prototype.toLowerCase and the i flag, on ASCII letters
UpperToLower ==
    ("A" :> "a") @@ ("B" :> "b") @@ ("C" :> "c") @@ ("D" :> "d") @@ ("E" :> "e") @@ ("F" :> "f") @@
    ("G" :> "g") @@ ("H" :> "h") @@ ("I" :> "i") @@ ("J" :> "j") @@ ("K" :> "k") @@ ("L" :> "l") @@
    ("M" :> "m") @@ ("N" :> "n") @@ ("O" :> "o") @@ ("P" :> "p") @@ ("Q" :> "q") @@ ("R" :> "r") @@
    ("S" :> "s") @@ ("T" :> "t") @@ ("U" :> "u") @@ ("V" :> "v") @@ ("W" :> "w") @@ ("X" :> "x") @@
    ("Y" :> "y") @@ ("Z" :> "z")

Lower(c) == IF c \in DOMAIN UpperToLower THEN UpperToLower[c] ELSE c

\* u matches s at position k under a regular expression's i flag
IsAtCI(s, u, k) ==
    /\ k >= 1
    /\ k + Len(u) - 1 <= Len(s)
    /\ \A j \in 1..Len(u) : Lower(s[k + j - 1]) = Lower(u[j])

Quotes == {"\"", "'"}
Whitespace == {" ", "\n", "\t"}

SrcEq == <<"s", "r", "c", "=">>
ImgOpen == <<"<", "i", "m", "g">>

(***************************************************************************)
(* The regular expressions of processImagesInContent and                   *)
(* replaceImageUrlInContent.  escapeRegExp makes the URL a literal, so a   *)
(* pattern is matched by positions; flag i folds letter case.              *)
(***************************************************************************)

\* escapeRegExp(url): the URL as a literal of the pattern (matched as is)
escapeRegExp(url) == url

\* src=["']URL["'] at position p (flags gi)
SrcAttrAt(s, url, p) ==
    /\ IsAtCI(s, SrcEq, p)
    /\ p + 4 <= Len(s)
    /\ s[p + 4] \in Quotes
    /\ IsAtCI(s, escapeRegExp(url), p + 5)
    /\ p + 5 + Len(url) <= Len(s)
    /\ s[p + 5 + Len(url)] \in Quotes

\* position of the quote that closes the src attribute opened at p
SrcClose(url, p) == p + 5 + Len(url)

\* htmlImgPattern3: src=["']URL["']
htmlImgPattern3(s, url) == \E p \in 1..Len(s) : SrcAttrAt(s, url, p)

\* htmlImgPattern2: <img\s+src=["']URL["'][^>]*>
htmlImgPattern2(s, url) ==
    \E a \in 1..Len(s), p \in 1..Len(s) :
        /\ IsAtCI(s, ImgOpen, a)
        /\ p > a + 4
        /\ \A j \in (a + 4)..(p - 1) : s[j] \in Whitespace
        /\ SrcAttrAt(s, url, p)
        /\ \E e \in (SrcClose(url, p) + 1)..Len(s) : s[e] = ">"

\* <img[^>]*\ssrc=["']URL["'][^>]*> matched from a with the attribute at p
ImgTagAt(s, url, a, p) ==
    /\ IsAtCI(s, ImgOpen, a)
    /\ p >= a + 5
    /\ s[p - 1] \in Whitespace
    /\ \A j \in (a + 4)..(p - 2) : s[j] # ">"
    /\ SrcAttrAt(s, url, p)
    /\ \E e \in (SrcClose(url, p) + 1)..Len(s) : s[e] = ">"

\* htmlImgPattern1: <img[^>]*\ssrc=["']URL["'][^>]*>
htmlImgPattern1(s, url) ==
    \E a \in 1..Len(s), p \in 1..Len(s) : ImgTagAt(s, url, a, p)

\* !\[[^\]]*\]\(URL\) matched from k, the alt text closed by "]" at m
MdImageAt(s, url, k, m) ==
    /\ k + 1 <= Len(s)
    /\ s[k] = "!"
    /\ s[k + 1] = "["
    /\ m >= k + 2
    /\ m + 1 <= Len(s)
    /\ s[m] = "]"
    /\ \A j \in (k + 2)..(m - 1) : s[j] # "]"
    /\ s[m + 1] = "("
    /\ IsAt(s, escapeRegExp(url), m + 2)
    /\ m + 2 + Len(url) <= Len(s)
    /\ s[m + 2 + Len(url)] = ")"

\* markdownPattern: !\[[^\]]*\]\(URL\)  (flag g only: case matters)
markdownPattern(s, url) ==
    \E k \in 1..Len(s), m \in 1..Len(s) : MdImageAt(s, url, k, m)

\* step 2 of replaceImageUrlInContent: every ![alt](URL) becomes ![alt](newUrl)
RECURSIVE ReplaceMarkdown(_, _, _, _)
ReplaceMarkdown(s, url, newUrl, k) ==
    IF k > Len(s) THEN <<>>
    ELSE IF s[k] = "!" /\ \E m \in k..Len(s) : MdImageAt(s, url, k, m)
    THEN LET m == CHOOSE m \in k..Len(s) : MdImageAt(s, url, k, m)
         IN  SubSeq(s, k, m + 1) \o newUrl \o <<")">>
                \o ReplaceMarkdown(s, url, newUrl, m + 3 + Len(url))
    ELSE <<s[k]>> \o ReplaceMarkdown(s, url, newUrl, k + 1)

\* first ">" after position q
FirstGt(s, q) == CHOOSE e \in (q + 1)..Len(s) :
                    s[e] = ">" /\ \A j \in (q + 1)..(e - 1) : s[j] # ">"

\* step 3: (<img[^>]*\ssrc=["'])URL(["'][^>]*>) keeps both groups around
\* newUrl; the greedy [^>]* takes the last attribute position that matches
RECURSIVE ReplaceHtmlImg(_, _, _, _)
ReplaceHtmlImg(s, url, newUrl, a) ==
    IF a > Len(s) THEN <<>>
    ELSE IF IsAtCI(s, ImgOpen, a) /\ \E p \in a..Len(s) : ImgTagAt(s, url, a, p)
    THEN LET p == CHOOSE p \in a..Len(s) :
                    /\ ImgTagAt(s, url, a, p)
                    /\ \A r \in (p + 1)..Len(s) : ~ImgTagAt(s, url, a, r)
             e == FirstGt(s, SrcClose(url, p))
         IN  SubSeq(s, a, p + 4) \o newUrl \o SubSeq(s, SrcClose(url, p), e)
                \o ReplaceHtmlImg(s, url, newUrl, e + 1)
    ELSE <<s[a]>> \o ReplaceHtmlImg(s, url, newUrl, a + 1)

\* <img\s+src=["']URL["']\s*> matched from a, closed by ">" at e
SimpleImgAt(s, url, a, p, e) ==
    /\ IsAtCI(s, ImgOpen, a)
    /\ p > a + 4
    /\ \A j \in (a + 4)..(p - 1) : s[j] \in Whitespace
    /\ SrcAttrAt(s, url, p)
    /\ e > SrcClose(url, p)
    /\ e <= Len(s)
    /\ s[e] = ">"
    /\ \A j \in (SrcClose(url, p) + 1)..(e - 1) : s[j] \in Whitespace

\* step 3, second pattern: the whole tag becomes <img src="newUrl">
RECURSIVE ReplaceSimpleImg(_, _, _, _)
ReplaceSimpleImg(s, url, newUrl, a) ==
    IF a > Len(s) THEN <<>>
    ELSE IF /\ IsAtCI(s, ImgOpen, a)
            /\ \E p \in a..Len(s), e \in a..Len(s) : SimpleImgAt(s, url, a, p, e)
    THEN LET pe == CHOOSE pe \in (a..Len(s)) \X (a..Len(s)) :
                        SimpleImgAt(s, url, a, pe[1], pe[2])
         IN  ImgOpen \o <<" ">> \o SrcEq \o <<"\"">> \o newUrl \o <<"\"", ">">>
                \o ReplaceSimpleImg(s, url, newUrl, pe[2] + 1)
    ELSE <<s[a]>> \o ReplaceSimpleImg(s, url, newUrl, a + 1)

\* updatedContent.split(originalUrl).join(newUrl)
\* String.prototype.replace with a string pattern: the first occurrence only
ReplaceFirst(content, originalUrl, newUrl) ==
    LET k == IndexOf(content, originalUrl, 1)
    IN  IF k = 0 THEN content
        ELSE SubSeq(content, 1, k - 1) \o newUrl
                \o SubSeq(content, k + Len(originalUrl), Len(content))

SplitJoin(content, originalUrl, newUrl) == Join(Split(content, originalUrl), newUrl)

\* OutlineClient.replaceImageUrlInContent
replaceImageUrlInContent(content, originalUrl, newUrl) ==
    LET simple == IF Includes(content, originalUrl)
                  THEN SplitJoin(content, originalUrl, newUrl)
                  ELSE content
    IN  IF simple # content THEN simple
        ELSE ReplaceSimpleImg(
                ReplaceHtmlImg(
                    ReplaceMarkdown(simple, originalUrl, newUrl, 1),
                    originalUrl, newUrl, 1),
                originalUrl, newUrl, 1)

(***************************************************************************)
(* Data: UploadState, ImageInfo, the remote service's answers.             *)
(***************************************************************************)

\* getState() of an absent record: result[STORAGE_KEY] || null
NoState == [isUploading |-> FALSE, absent |-> TRUE]

\* an absent optional string (undefined and '' are both falsy)
None == <<>>

\* maxRetries of uploadImage
maxRetries == 3

\* the size limit of uploadImage: 10 * 1024 * 1024 bytes
MaxBytes == 10485760

\* 1000 ms: the base of retryDelay, and the delay between two images
BaseDelayMs == 1000

RECURSIVE Pow(_, _)
Pow(b, n) == IF n = 0 THEN 1 ELSE b * Pow(b, n - 1)

\* the OutlineClient's apiUrl (the constructor strips a trailing slash)
apiUrl == <<"h", "t", "t", "p", ":", "/", "/", "h", "o", "s", "t">>
Http == <<"h", "t", "t", "p">>
DataScheme == <<"d", "a", "t", "a", ":">>

\* content.includes('github.com'), originalUrl.includes('camo.githubusercontent.com')
GitHubCom == <<"g", "i", "t", "h", "u", "b", ".", "c", "o", "m">>
CamoHost == <<"c", "a", "m", "o", ".", "g", "i", "t", "h", "u", "b",
              "u", "s", "e", "r", "c", "o", "n", "t", "e", "n", "t", ".", "c", "o", "m">>

\* data.attachment.url values the service answers with
AttachmentUrls ==
    { <<"h", "t", "t", "p", ":", "/", "/", "h", "o", "s", "t", "/",
        "n", "e", "w", ".", "p", "n", "g">>,
      <<"/", "n", "2">> }

ImagePng == <<"i", "m", "a", "g", "e", "/", "p", "n", "g">>
ImagePrefix == <<"i", "m", "a", "g", "e", "/">>

\* content-type headers of a downloaded image (None: no header)
ContentTypes ==
    { None,
      <<"i", "m", "a", "g", "e", "/", "j", "p", "e", "g", ";", " ", "q">>,
      <<"t", "e", "x", "t", "/", "h", "t", "m", "l">> }

\* s.trim()
RECURSIVE Trim(_)
Trim(s) ==
    IF Len(s) = 0 THEN s
    ELSE IF s[1] \in Whitespace THEN Trim(Tail(s))
    ELSE IF s[Len(s)] \in Whitespace THEN Trim(SubSeq(s, 1, Len(s) - 1))
    ELSE s

\* contentType.split(';')[0].trim()
CleanMime(contentType) == Trim(Split(contentType, <<";">>)[1])

\* a blob: its size in bytes and its MIME type
DownloadedBlob(size, header) ==
    [size |-> size,
     mime |-> CleanMime(IF header = None THEN ImagePng ELSE header)]

\* fetch(imageUrl): a network error (status 0) or a non-OK status, or a blob
DownloadResponses ==
    {[ok |-> FALSE, status |-> s] : s \in {0, 401, 429}} \cup
    {[ok |-> TRUE, status |-> 200, blob |-> DownloadedBlob(sz, h)] :
        sz \in {MaxBytes, MaxBytes + 1}, h \in ContentTypes}

\* the characters atob accepts
Base64Chars == {"A", "B", "C", "Q", "a", "b", "0", "1", "+", "/", "="}

\* padding characters at the end of a base64 text
Padding(b) ==
    IF Len(b) >= 2 /\ b[Len(b)] = "=" /\ b[Len(b) - 1] = "=" THEN 2
    ELSE IF Len(b) >= 1 /\ b[Len(b)] = "=" THEN 1
    ELSE 0

\* the data-URL branch: [header, base64Data] = imageUrl.split(','), the MIME
\* type from header.match(/data:([^;]+)/) or image/png, the bytes from atob,
\* which throws on a missing or malformed payload
DecodeDataUrl(imageUrl) ==
    LET parts == Split(imageUrl, <<",">>)
        header == parts[1]
        semi == IndexOf(header, <<";">>, 1)
        named == SubSeq(header, Len(DataScheme) + 1,
                        IF semi = 0 THEN Len(header) ELSE semi - 1)
        mime == IF named = <<>> THEN ImagePng ELSE named
        b == IF Len(parts) >= 2 THEN parts[2] ELSE <<>>
    IN  IF \/ Len(parts) < 2
           \/ Len(b) % 4 = 1
           \/ \E j \in 1..Len(b) : b[j] \notin Base64Chars
        THEN [ok |-> FALSE]
        ELSE [ok |-> TRUE,
              blob |-> [size |-> (Len(b) * 3) \div 4 - Padding(b),
                        mime |-> CleanMime(mime)]]

\* HTTP statuses of attachments.create and of the byte submission
SlotStatuses == {200, 401, 429, 500}
SubmitStatuses == {200, 201, 202, 204, 401, 429, 500}

\* the reference URL of an image: img.markdownUrl || img.originalUrl
RefUrl(img) == IF img.markdownUrl # None THEN img.markdownUrl ELSE img.originalUrl

\* mimeType.startsWith('image/')
IsImageMime(mime) == StartsWith(mime, ImagePrefix)

\* isGitHub of processImagesInContent
isGitHub(content, images) ==
    /\ Includes(content, GitHubCom)
    /\ \E n \in DOMAIN images : Includes(images[n].originalUrl, CamoHost)

\* a filter that would keep every candidate
KeepAll(content, img) == TRUE

\* the filter callback: direct substring, the three <img> patterns, the
\* markdown image pattern
isInContent(content, img) ==
    LET urlToCheck == RefUrl(img)
    IN  \/ Includes(content, urlToCheck)
        \/ htmlImgPattern1(content, urlToCheck)
        \/ htmlImgPattern2(content, urlToCheck)
        \/ htmlImgPattern3(content, urlToCheck)
        \/ markdownPattern(content, urlToCheck)

\* Array.prototype.filter over positions: the kept positions in order
RECURSIVE FilterPositions(_, _, _)
FilterPositions(content, images, n) ==
    IF n > Len(images) THEN <<>>
    ELSE (IF isInContent(content, images[n]) THEN <<n>> ELSE <<>>)
            \o FilterPositions(content, images, n + 1)

\* contentImages: every image on a GitHub page, else the filtered ones
contentImages(content, images) ==
    IF isGitHub(content, images)
    THEN [n \in 1..Len(images) |-> n]
    ELSE FilterPositions(content, images, 1)

\* imagesToProcess = contentImages.slice(0, contentImages.length || 150),
\* as positions in the images array (the objects are shared)
imagesToProcess(content, images) == contentImages(content, images)

(***************************************************************************)
(* UploadStateStorage: every method is one or two storage accesses with an *)
(* await between them.                                                     *)
(***************************************************************************)

\* the record setState writes at the start of a session
InitialUploadState(total, time) ==
    [isUploading |-> TRUE, currentIndex |-> 0, totalImages |-> total,
     startTime |-> time, shouldStop |-> FALSE]

\* requestStop's guard: state && state.isUploading
StopApplies(state) == state # NoState /\ state.isUploading

\* requestStop's write: {...state, shouldStop: true}
WithStop(state) == [state EXCEPT !.shouldStop = TRUE]

\* updateProgress's write: {...state, currentIndex, totalImages}
WithProgress(state, currentIndex, totalImages) ==
    [state EXCEPT !.currentIndex = currentIndex, !.totalImages = totalImages]

\* currentState?.shouldStop of the loop's stop check
StopRequested(currentState) == currentState # NoState /\ currentState.shouldStop

(***************************************************************************)
(* uploadImage: one call per image, as a task of the clip operation.       *)
(***************************************************************************)

\* pc: where the call stands; retryCount: its parameter; waits: the backoff
\* delays it has slept, in ms; fileUrl: the hosted URL of the slot answer;
\* fetched: the status of the answer to fetch(imageUrl) of the latest attempt,
\* in a set that is empty before the answer;
\* attempts: the entries into uploadImage; rateLimited: the latest attempt
\* ended on an answer with status 429; unauthorized: a request of the call
\* was answered with status 401; blob: the source bytes of the attempt, once
\* they are there
NoBlob == [size |-> 0, mime |-> None]

NoTask == [pc |-> "none", retryCount |-> 0, ret |-> None, waits |-> <<>>,
           fileUrl |-> None, attempts |-> 0, rateLimited |-> FALSE,
           unauthorized |-> FALSE, blob |-> NoBlob, fetched |-> {}]

\* retryDelay = 1000 * Math.pow(2, retryCount)
retryDelay(retryCount) == BaseDelayMs * Pow(2, retryCount)

\* backoffDelay = retryDelay * Math.pow(2, retryCount)
backoffDelay(retryCount) == retryDelay(retryCount) * Pow(2, retryCount)

\* a catch block that would retry a 429 once more (retryCount <= maxRetries)
ShouldRetryOnceMore(status, retryCount) == status = 429 /\ retryCount <= maxRetries

\* the catch block's second test: status 429 and retryCount < maxRetries
ShouldRetry(status, retryCount) == status = 429 /\ retryCount < maxRetries

\* fileUrl: attachment.url, prefixed with apiUrl when it is relative
FileUrl(attachmentUrl) ==
    IF StartsWith(attachmentUrl, Http) THEN attachmentUrl ELSE apiUrl \o attachmentUrl

\* checks that would let every blob pass
AcceptAny(blob) == TRUE

\* the blob passes the size and MIME checks
BlobAccepted(blob) == blob.size <= MaxBytes /\ IsImageMime(blob.mime)

\* a catch block that would retry an answer 401 as it retries an answer 429
AfterErrorRetrying(t, imageUrl, status) ==
    IF status \in {401, 429} /\ t.retryCount < maxRetries
    THEN [t EXCEPT !.pc = "backoff", !.rateLimited = (status = 429),
                   !.unauthorized = (status = 401),
                   !.waits = Append(t.waits, backoffDelay(t.retryCount))]
    ELSE [t EXCEPT !.pc = "ret", !.ret = imageUrl, !.rateLimited = (status = 429),
                   !.unauthorized = (status = 401)]

\* the task after the catch block handled an error with HTTP status `status`
\* (0: an error without a response)
AfterError(t, imageUrl, status) ==
    IF status = 401 THEN [t EXCEPT !.pc = "ret", !.ret = imageUrl, !.rateLimited = FALSE,
                                   !.unauthorized = TRUE]
    ELSE IF ShouldRetry(status, t.retryCount)
    THEN [t EXCEPT !.pc = "backoff", !.rateLimited = TRUE,
                   !.waits = Append(t.waits, backoffDelay(t.retryCount))]
    ELSE [t EXCEPT !.pc = "ret", !.ret = imageUrl, !.rateLimited = (status = 429)]

\* a download whose failure would be thrown on to the outer catch block
DownloadFailedThrown(t, imageUrl, status) == AfterError(t, imageUrl, status)

\* the inner catch block around fetch(imageUrl): return imageUrl
DownloadFailed(t, imageUrl, status) ==
    [t EXCEPT !.pc = "ret", !.ret = imageUrl, !.rateLimited = FALSE,
              !.unauthorized = (status = 401)]

\* the task after the source bytes are there (downloaded, or decoded from a
\* data URL): the size and MIME checks, then on to attachments.create
AfterBytes(t, imageUrl, blob) ==
    IF BlobAccepted(blob) THEN [t EXCEPT !.pc = "slot", !.blob = blob]
    ELSE AfterError(t, imageUrl, 0)

\* entry of uploadImage(imageUrl, retryCount): a data URL is decoded at once
\* (an exception of atob goes to the catch block), any other URL is fetched
EnterUpload(t, imageUrl, retryCount) ==
    LET t1 == [t EXCEPT !.retryCount = retryCount, !.attempts = t.attempts + 1,
                        !.fileUrl = None, !.blob = NoBlob, !.fetched = {}]
        d == DecodeDataUrl(imageUrl)
    IN  IF StartsWith(imageUrl, DataScheme)
        THEN IF d.ok THEN AfterBytes(t1, imageUrl, d.blob)
             ELSE AfterError(t1, imageUrl, 0)
        ELSE [t1 EXCEPT !.pc = "download"]

(***************************************************************************)
(* The clip operations and the UI surfaces.                                *)
(***************************************************************************)

\* clip operations that may run in one extension process (popup clip
\* message, context-menu clip)
Clips == {"message", "contextMenu"}

\* the surfaces that call UploadStateStorage.requestStop
Stoppers == {"popup", "notification"}

\* the shapes of a reply passed to sendResponse
Success == "{success:true,...}"
Failure == "{success:false,error}"
BareFalse == "{success:false}"
DataUrl == "dataUrl"

\* a promise of a listener that is rejected and that nothing catches
UnhandledRejection == "unhandledRejection"

\* what the listener that started clip c makes of processClip's end: the
\* message listener's handleMessage sends the result or, in its catch, a
\* failure; the context-menu listener awaits the clip and catches nothing
Listener(c, threw) ==
    IF c = "message" THEN (IF threw THEN Failure ELSE Success)
    ELSE (IF threw THEN UnhandledRejection ELSE "none")

\* a clip operation that is never started
OffClip ==
    [pc |-> "off", content |-> <<>>, images |-> <<>>, todo |-> <<>>, i |-> 0,
     processedContent |-> <<>>, state |-> NoState, task |-> <<>>,
     progress |-> <<>>, stopped |-> FALSE, net |-> {}, stopAt |-> 0,
     recent |-> <<>>, outcome |-> "none", reply |-> "none"]

\* processClip(content, ...) before its first step
NewClip(input) ==
    [OffClip EXCEPT !.pc = "idle", !.content = input.content,
                    !.images = input.images,
                    !.processedContent = input.content]

\* the loop of processImagesInContent between its setState and its clearState
InSession(k) == k.pc \in {"check", "upd_get", "upd_set", "delay", "await", "clear"}

\* at: the clock when requestStop read the record; quiet: no clip was in
\* its upload session then
IdleStopper == [pc |-> "idle", state |-> NoState, at |-> 0, quiet |-> FALSE]

\* the image the loop is at: imagesToProcess[i]
CurrentImage(k) == k.images[k.todo[k.i + 1]]

\* the loop's condition i < imagesToProcess.length decides between the
\* stop check of the next round and the clearState after the loop
NextPc(i, total) == IF i < total THEN "check" ELSE "clear"

\* a loop that would give up the remaining images after a failed one
NextIndexBreak(i, total, hosted) == IF hosted THEN i + 1 ELSE total

\* the loop goes on with the image after i, whether image i was hosted
\* (hosted) or kept its original URL
NextIndex(i, total, hosted) == i + 1

\* a loop that would not await the call
NoAwait(task) == TRUE

\* `await this.uploadImage(...)`: the loop resumes when the call has returned
AwaitUpload(task) == task.pc = "ret"

\* the images (positions in imagesToProcess) a network request was issued
\* for, when uploadImage is entered: a data URL needs no download, and its
\* first request is attachments.create
Issued(pos, after) == IF after.pc \in {"download", "slot"} THEN {pos} ELSE {}

\* a call of uploadImage whose result the loop has taken
DoneTask == [NoTask EXCEPT !.pc = "done"]

\* processClip up to the first await of processImagesInContent: the options
\* are read, the images are filtered and the session's state is written
StartClip(c) ==
    /\ clip[c].pc = "idle"
    /\ \E uploadImages \in BOOLEAN :
        IF uploadImages /\ Len(clip[c].images) > 0
        THEN LET todo == imagesToProcess(clip[c].content, clip[c].images)
             IN  /\ store' = InitialUploadState(Len(todo), now)
                 /\ now' = now + 1
                 /\ clip' = [clip EXCEPT ![c].pc = NextPc(0, Len(todo)),
                                         ![c].todo = todo,
                                         ![c].task = [n \in 1..Len(todo) |-> NoTask],
                                         ![c].progress = <<0, Len(todo)>>]
        ELSE /\ clip' = [clip EXCEPT ![c].pc = "create"]
             /\ UNCHANGED <<store, now>>
    /\ UNCHANGED <<stopper, recentClips, lp, ce, msg, sel, dt>>

\* the stop check at the top of a round: getState, then break on shouldStop
LoopCheck(c) ==
    /\ clip[c].pc = "check"
    /\ clip' = [clip EXCEPT ![c].pc = IF StopRequested(store) THEN "clear" ELSE "upd_get",
                            ![c].stopped = StopRequested(store)]
    /\ UNCHANGED <<store, now, stopper, recentClips, lp, ce, msg, sel, dt>>

\* updateProgress, first half: const state = await this.getState()
UpdateProgressGet(c) ==
    /\ clip[c].pc = "upd_get"
    /\ clip' = [clip EXCEPT ![c].pc = "upd_set", ![c].state = store]
    /\ UNCHANGED <<store, now, stopper, recentClips, lp, ce, msg, sel, dt>>

\* updateProgress, second half: setState({...state, currentIndex, totalImages});
\* then the round goes on to the inter-image delay or, for the first image,
\* into uploadImage
UpdateProgressSet(c) ==
    LET k == clip[c]
        total == Len(k.todo)
        image == CurrentImage(k)
        t == EnterUpload(k.task[k.i + 1], image.originalUrl, 0)
    IN  /\ k.pc = "upd_set"
        /\ store' = IF k.state # NoState THEN WithProgress(k.state, k.i, total)
                    ELSE store
        /\ IF image.originalUrl = None
           THEN clip' = [clip EXCEPT ![c].pc = NextPc(k.i + 1, total),
                                     ![c].i = k.i + 1]
           ELSE IF k.i > 0
           THEN clip' = [clip EXCEPT ![c].pc = "delay"]
           ELSE clip' = [clip EXCEPT ![c].pc = "await",
                                     ![c].task[k.i + 1] = t,
                                     ![c].net = k.net \cup Issued(k.i + 1, t)]
        /\ UNCHANGED <<now, stopper, recentClips, lp, ce, msg, sel, dt>>

\* await this.delay(1000) before every image but the first, then uploadImage
InterImageDelay(c) ==
    LET k == clip[c]
        t == EnterUpload(k.task[k.i + 1], CurrentImage(k).originalUrl, 0)
    IN  /\ k.pc = "delay"
        /\ clip' = [clip EXCEPT ![c].pc = "await",
                                ![c].task[k.i + 1] = t,
                                ![c].net = k.net \cup Issued(k.i + 1, t)]
        /\ UNCHANGED <<store, now, stopper, recentClips, lp, ce, msg, sel, dt>>

\* the answer to fetch(imageUrl): a failed download returns the original URL,
\* a blob goes through the size and MIME checks into attachments.create
DownloadDone(c) ==
    \E pos \in DOMAIN clip[c].task :
        LET k == clip[c]
            t == k.task[pos]
            url == k.images[k.todo[pos]].originalUrl
        IN  /\ t.pc = "download"
            /\ \E r \in DownloadResponses :
                LET t1 == [t EXCEPT !.fetched = {r.status}]
                    t2 == IF r.ok THEN AfterBytes(t1, url, r.blob)
                          ELSE DownloadFailed(t1, url, r.status)
                IN  clip' = [clip EXCEPT ![c].task[pos] = t2,
                                         ![c].net = k.net \cup Issued(pos, t2)]
            /\ UNCHANGED <<store, now, stopper, recentClips, lp, ce, msg, sel, dt>>

\* the answer to attachments.create
SlotDone(c) ==
    \E pos \in DOMAIN clip[c].task :
        LET k == clip[c]
            t == k.task[pos]
            url == k.images[k.todo[pos]].originalUrl
        IN  /\ t.pc = "slot"
            /\ \E status \in SlotStatuses :
                IF status = 200
                THEN \E a \in AttachmentUrls :
                        clip' = [clip EXCEPT ![c].task[pos] =
                                        [t EXCEPT !.pc = "submit", !.fileUrl = FileUrl(a)]]
                ELSE clip' = [clip EXCEPT ![c].task[pos] = AfterError(t, url, status)]
            /\ UNCHANGED <<store, now, stopper, recentClips, lp, ce, msg, sel, dt>>

\* the answer to the byte submission: 200, 201 and 204 return the hosted URL,
\* another 2xx status throws an error without a response
SubmitDone(c) ==
    \E pos \in DOMAIN clip[c].task :
        LET k == clip[c]
            t == k.task[pos]
            url == k.images[k.todo[pos]].originalUrl
        IN  /\ t.pc = "submit"
            /\ \E status \in SubmitStatuses :
                clip' = [clip EXCEPT ![c].task[pos] =
                    IF status \in {200, 201, 204}
                    THEN [t EXCEPT !.pc = "ret", !.ret = t.fileUrl,
                                   !.rateLimited = FALSE]
                    ELSE AfterError(t, url, IF status = 202 THEN 0 ELSE status)]
            /\ UNCHANGED <<store, now, stopper, recentClips, lp, ce, msg, sel, dt>>

\* the backoff timer fires: return this.uploadImage(imageUrl, retryCount + 1)
BackoffDone(c) ==
    \E pos \in DOMAIN clip[c].task :
        LET k == clip[c]
            t == k.task[pos]
            t2 == EnterUpload(t, k.images[k.todo[pos]].originalUrl, t.retryCount + 1)
        IN  /\ t.pc = "backoff"
            /\ clip' = [clip EXCEPT ![c].task[pos] = t2,
                                    ![c].net = k.net \cup Issued(pos, t2)]
            /\ UNCHANGED <<store, now, stopper, recentClips, lp, ce, msg, sel, dt>>

\* a test that would take every returned URL for a hosted one
AnyUrlHosted(outlineUrl, originalUrl) == TRUE

\* if (outlineUrl !== image.originalUrl)
Hosted(outlineUrl, originalUrl) == outlineUrl # originalUrl

\* uploadImage has returned: a hosted URL is recorded on the image and
\* substituted in the body, and the progress callback is called; the original
\* URL counts as a failure; either way the loop goes on
AfterUpload(c) ==
    LET k == clip[c]
        total == Len(k.todo)
        image == CurrentImage(k)
        t == k.task[k.i + 1]
        outlineUrl == t.ret
        next == NextIndex(k.i, total, Hosted(outlineUrl, image.originalUrl))
        taken == IF t.pc = "ret" THEN DoneTask ELSE t
    IN  /\ k.pc = "await"
        /\ AwaitUpload(t)
        /\ IF Hosted(outlineUrl, image.originalUrl)
           THEN clip' = [clip EXCEPT
                    ![c].images[k.todo[k.i + 1]].outlineUrl = outlineUrl,
                    ![c].processedContent =
                        replaceImageUrlInContent(k.processedContent, RefUrl(image), outlineUrl),
                    ![c].progress = <<k.i + 1, total>>,
                    ![c].task[k.i + 1] = taken,
                    ![c].i = next,
                    ![c].pc = NextPc(next, total)]
           ELSE clip' = [clip EXCEPT ![c].task[k.i + 1] = taken,
                                     ![c].i = next, ![c].pc = NextPc(next, total)]
        /\ UNCHANGED <<store, now, stopper, recentClips, lp, ce, msg, sel, dt>>

\* await UploadStateStorage.clearState(), then return processedContent
ClearState(c) ==
    /\ clip[c].pc = "clear"
    /\ store' = NoState
    /\ clip' = [clip EXCEPT ![c].pc = "create"]
    /\ UNCHANGED <<now, stopper, recentClips, lp, ce, msg, sel, dt>>

\* processClip after the image step: no target collection throws, a remote
\* error of documents.create throws, else the document exists
CreateDocument(c) ==
    /\ clip[c].pc = "create"
    /\ \E answer \in {"noCollection", "apiError", "created"} :
        clip' = [clip EXCEPT
            ![c].pc = IF answer = "created" THEN "recent_get" ELSE "failed",
            ![c].outcome = IF answer = "created" THEN "created" ELSE answer,
            ![c].reply = IF answer = "created" THEN "none" ELSE Listener(c, TRUE)]
    /\ UNCHANGED <<store, now, stopper, recentClips, lp, ce, msg, sel, dt>>

\* ConfigStorage.addRecentClip, first half: await this.getRecentClips()
AddRecentClipGet(c) ==
    /\ clip[c].pc = "recent_get"
    /\ clip' = [clip EXCEPT ![c].pc = "recent_set", ![c].recent = recentClips]
    /\ UNCHANGED <<store, now, stopper, recentClips, lp, ce, msg, sel, dt>>

\* a list that is never cut
KeepEveryClip(list) == list

\* recentClips.slice(0, 10)
MaxRecentClips == 10
TrimmedClips(list) == SubSeq(list, 1, IF Len(list) < MaxRecentClips THEN Len(list) ELSE MaxRecentClips)

\* { ...clip, timestamp: new Date().toISOString() }
RecentClip(c, time) == [clip |-> c, timestamp |-> time]

\* addRecentClip, second half: unshift, slice(0, 10), set; processClip
\* returns.  The storage area applies the writes in the order they are
\* issued, so the timestamp is read together with the write.
AddRecentClipSet(c) ==
    /\ clip[c].pc = "recent_set"
    /\ recentClips' = TrimmedClips(<<RecentClip(c, now)>> \o clip[c].recent)
    /\ now' = now + 1
    /\ clip' = [clip EXCEPT ![c].pc = "done", ![c].outcome = "success",
                             ![c].reply = Listener(c, FALSE)]
    /\ UNCHANGED <<store, stopper, lp, ce, msg, sel, dt>>

\* the clip operation stands between two images: image i is done (i >= 1)
\* and no request for the next image has been issued
BetweenImages(k) ==
    /\ k.pc \in {"check", "upd_get", "upd_set", "delay"}
    /\ k.i >= 1
    /\ k.i + 1 \notin k.net

\* requestStop, first half: const state = await this.getState()
\* and, without a record of a running upload, the return
RequestStopGet(s) ==
    /\ stopper[s].pc = "idle"
    /\ IF StopApplies(store)
       THEN stopper' = [stopper EXCEPT ![s] = [pc |-> "got", state |-> store, at |-> now,
                                                 quiet |-> \A c \in Clips : ~InSession(clip[c])]]
       ELSE UNCHANGED stopper
    /\ UNCHANGED <<store, now, clip, recentClips, lp, ce, msg, sel, dt>>

\* requestStop, second half: setState({...state, shouldStop: true})
RequestStopSet(s) ==
    /\ stopper[s].pc = "got"
    /\ store' = WithStop(stopper[s].state)
    /\ stopper' = [stopper EXCEPT ![s] = IdleStopper]
    /\ clip' = [c \in Clips |->
                    IF clip[c].stopAt = 0 /\ BetweenImages(clip[c])
                    THEN [clip[c] EXCEPT !.stopAt = clip[c].i + 1]
                    ELSE clip[c]]
    /\ UNCHANGED <<now, recentClips, lp, ce, msg, sel, dt>>

ClipStep(c) ==
    \/ StartClip(c)
    \/ LoopCheck(c)
    \/ UpdateProgressGet(c)
    \/ UpdateProgressSet(c)
    \/ InterImageDelay(c)
    \/ DownloadDone(c)
    \/ SlotDone(c)
    \/ SubmitDone(c)
    \/ BackoffDone(c)
    \/ AfterUpload(c)
    \/ ClearState(c)
    \/ CreateDocument(c)
    \/ AddRecentClipGet(c)
    \/ AddRecentClipSet(c)

StopStep(s) == RequestStopGet(s) \/ RequestStopSet(s)

(***************************************************************************)
(* LinkProcessor: markdown links become embed tags of the wiki.            *)
(***************************************************************************)

Digits == {"0", "1", "2", "3", "4", "5", "6", "7", "8", "9"}
HexDigits == Digits \cup {"a", "b", "c", "d", "e", "f"}

\* the characters that end a YouTube video id: [^&\n?#]
IdStop == {"&", "\n", "?", "#"}

\* the first position at or after p of s that ends a run of characters of
\* class cls (neg: of characters outside cls)
RECURSIVE RunEnd(_, _, _, _)
RunEnd(s, p, cls, neg) ==
    IF p > Len(s) \/ ((s[p] \in cls) = neg) THEN p
    ELSE RunEnd(s, p + 1, cls, neg)

\* alternative a of alts matches s at p and is followed by a run of at least
\* one character
AltAt(s, alts, a, p, cls, neg) ==
    /\ IsAt(s, alts[a], p)
    /\ RunEnd(s, p + Len(alts[a]), cls, neg) > p + Len(alts[a])

\* s.match(/(?:alt1|alt2|...)(class+)/): the captured run of the leftmost
\* match, None when there is no match
MatchCapture(s, alts, cls, neg) ==
    LET hits == {p \in 1..Len(s) : \E a \in DOMAIN alts : AltAt(s, alts, a, p, cls, neg)}
    IN  IF hits = {} THEN None
        ELSE LET p == CHOOSE h \in hits : \A g \in hits : h <= g
                 a == CHOOSE b \in DOMAIN alts :
                        /\ AltAt(s, alts, b, p, cls, neg)
                        /\ \A d \in DOMAIN alts : AltAt(s, alts, d, p, cls, neg) => b <= d
                 from == p + Len(alts[a])
             IN  SubSeq(s, from, RunEnd(s, from, cls, neg) - 1)

YoutubeCom == <<"y", "o", "u", "t", "u", "b", "e", ".", "c", "o", "m">>
YoutuBe == <<"y", "o", "u", "t", "u", ".", "b", "e">>
TwitterCom == <<"t", "w", "i", "t", "t", "e", "r", ".", "c", "o", "m">>
XCom == <<"x", ".", "c", "o", "m">>
CodepenIo == <<"c", "o", "d", "e", "p", "e", "n", ".", "i", "o">>
GistGithubCom == <<"g", "i", "s", "t", ".", "g", "i", "t", "h", "u", "b", ".", "c", "o", "m">>
FigmaCom == <<"f", "i", "g", "m", "a", ".", "c", "o", "m">>
MiroCom == <<"m", "i", "r", "o", ".", "c", "o", "m">>
MapsGoogleCom == <<"m", "a", "p", "s", ".", "g", "o", "o", "g", "l", "e", ".", "c", "o", "m">>
GoogleCom == <<"g", "o", "o", "g", "l", "e", ".", "c", "o", "m">>
VimeoCom == <<"v", "i", "m", "e", "o", ".", "c", "o", "m">>
Https == <<"h", "t", "t", "p", "s", ":", "/", "/">>

\* new URL(url) for an http(s) URL without userinfo: hostname (lower case,
\* without the port) and pathname; any other text counts as unparsable,
\* which gives processLinks the same result as a link of no provider
parseUrl(url) ==
    LET scheme == IF StartsWith(url, Https) THEN Https
                  ELSE IF StartsWith(url, Http \o <<":", "/", "/">>) THEN Http \o <<":", "/", "/">>
                  ELSE None
        from == Len(scheme) + 1
        authEnd == RunEnd(url, from, {"/", "?", "#"}, TRUE)
        hostEnd == RunEnd(url, from, {"/", "?", "#", ":"}, TRUE)
        host == SubSeq(url, from, hostEnd - 1)
        pathEnd == RunEnd(url, authEnd, {"?", "#"}, TRUE)
    IN  [ok |-> scheme # None /\ host # <<>>,
         hostname |-> [j \in 1..Len(host) |-> Lower(host[j])],
         pathname |-> IF pathEnd > authEnd THEN SubSeq(url, authEnd, pathEnd - 1)
                      ELSE <<"/">>]

isYouTube(domain) == Includes(domain, YoutubeCom) \/ Includes(domain, YoutuBe)

\* the two patterns of extractYouTubeVideoId, tried in order on the raw URL
extractYouTubeVideoId(url) ==
    LET first == MatchCapture(url,
                    <<YoutubeCom \o <<"/", "w", "a", "t", "c", "h", "?", "v", "=">>,
                      YoutuBe \o <<"/">>,
                      YoutubeCom \o <<"/", "e", "m", "b", "e", "d", "/">>>>, IdStop, TRUE)
    IN  IF first # None THEN first
        ELSE MatchCapture(url, <<YoutubeCom \o <<"/", "v", "/">>>>, IdStop, TRUE)

isTwitter(domain) == Includes(domain, TwitterCom) \/ Includes(domain, XCom)

\* pathname.match(/\/status\/(\d+)/)
extractTwitterTweetId(pathname) ==
    MatchCapture(pathname, <<<<"/", "s", "t", "a", "t", "u", "s", "/">>>>, Digits, FALSE)

isCodePen(domain) == Includes(domain, CodepenIo)

\* pathname.match(/\/pen\/([^\/]+)/)
extractCodePenId(pathname) ==
    MatchCapture(pathname, <<<<"/", "p", "e", "n", "/">>>>, {"/"}, TRUE)

isGitHubGist(domain) == Includes(domain, GistGithubCom)

\* /\/([^\/]+)\/([a-f0-9]+)/ matches pathname at p: a slash, a segment, a
\* slash, hexadecimal digits
GistAt(pathname, p) ==
    LET slash == RunEnd(pathname, p + 1, {"/"}, TRUE)
    IN  /\ pathname[p] = "/"
        /\ slash > p + 1
        /\ slash <= Len(pathname)
        /\ RunEnd(pathname, slash + 1, HexDigits, FALSE) > slash + 1

\* pathname.match(/\/([^\/]+)\/([a-f0-9]+)/), the second group
extractGistId(pathname) ==
    LET hits == {p \in 1..Len(pathname) : GistAt(pathname, p)}
    IN  IF hits = {} THEN None
        ELSE LET p == CHOOSE h \in hits : \A g \in hits : h <= g
                 slash == RunEnd(pathname, p + 1, {"/"}, TRUE)
             IN  SubSeq(pathname, slash + 1,
                        RunEnd(pathname, slash + 1, HexDigits, FALSE) - 1)

isFigma(domain) == Includes(domain, FigmaCom)

isMiro(domain) == Includes(domain, MiroCom)

isGoogleMaps(domain, pathname) ==
    \/ Includes(domain, MapsGoogleCom)
    \/ Includes(domain, GoogleCom) /\ Includes(pathname, <<"/", "m", "a", "p", "s">>)

isVimeo(domain) == Includes(domain, VimeoCom)

\* pathname.match(/\/(\d+)/)
extractVimeoVideoId(pathname) == MatchCapture(pathname, <<<<"/">>>>, Digits, FALSE)

\* `@[name](arg)`
EmbedTag(name, arg) == <<"@", "[">> \o name \o <<"]", "(">> \o arg \o <<")">>

\* `[text](url)`
PlainLink(text, url) == <<"[">> \o text \o <<"]", "(">> \o url \o <<")">>

\* a conversion that would take the first provider whose domain matches,
\* with whatever its extraction gives
ConvertAtFirstDomain(text, url) ==
    LET u == parseUrl(url)
    IN  IF ~u.ok THEN None
        ELSE IF isYouTube(u.hostname) THEN EmbedTag(<<"y", "o", "u", "t", "u", "b", "e">>, extractYouTubeVideoId(url))
        ELSE IF isTwitter(u.hostname)
        THEN EmbedTag(<<"t", "w", "e", "e", "t">>, extractTwitterTweetId(u.pathname))
        ELSE IF isVimeo(u.hostname)
        THEN EmbedTag(<<"v", "i", "m", "e", "o">>, extractVimeoVideoId(u.pathname))
        ELSE PlainLink(text, url)

\* the tag of the first provider that accepts the URL, the plain link when
\* none does, None when the URL does not parse
convertLinkToOutlineTag(text, url) ==
    LET u == parseUrl(url)
        domain == u.hostname
        path == u.pathname
    IN  IF ~u.ok THEN None
        ELSE IF isYouTube(domain) /\ extractYouTubeVideoId(url) # None
        THEN EmbedTag(<<"y", "o", "u", "t", "u", "b", "e">>, extractYouTubeVideoId(url))
        ELSE IF isTwitter(domain) /\ extractTwitterTweetId(path) # None
        THEN EmbedTag(<<"t", "w", "e", "e", "t">>, extractTwitterTweetId(path))
        ELSE IF isCodePen(domain) /\ extractCodePenId(path) # None
        THEN EmbedTag(<<"c", "o", "d", "e", "p", "e", "n">>, extractCodePenId(path))
        ELSE IF isGitHubGist(domain) /\ extractGistId(path) # None
        THEN EmbedTag(<<"g", "i", "s", "t">>, extractGistId(path))
        ELSE IF isFigma(domain) THEN EmbedTag(<<"f", "i", "g", "m", "a">>, url)
        ELSE IF isMiro(domain) THEN EmbedTag(<<"m", "i", "r", "o">>, url)
        ELSE IF isGoogleMaps(domain, path) THEN EmbedTag(<<"g", "o", "o", "g", "l", "e", "m", "a", "p", "s">>, url)
        ELSE IF isVimeo(domain) /\ extractVimeoVideoId(path) # None
        THEN EmbedTag(<<"v", "i", "m", "e", "o">>, extractVimeoVideoId(path))
        ELSE PlainLink(text, url)

\* linkPattern /\[([^\]]*)\]\(([^)]+)\)/ matches s at k
LinkAt(s, k) ==
    LET close == RunEnd(s, k + 1, {"]"}, TRUE)
        paren == RunEnd(s, close + 2, {")"}, TRUE)
    IN  /\ s[k] = "["
        /\ close + 1 <= Len(s)
        /\ s[close + 1] = "("
        /\ paren > close + 2
        /\ paren <= Len(s)

\* markdown.replace(linkPattern, ...) from position k on: every match, from
\* left to right, gives way to its tag, or stays when there is none
RECURSIVE ReplaceLinks(_, _)
ReplaceLinks(s, k) ==
    IF k > Len(s) THEN <<>>
    ELSE IF LinkAt(s, k)
    THEN LET close == RunEnd(s, k + 1, {"]"}, TRUE)
             paren == RunEnd(s, close + 2, {")"}, TRUE)
             text == SubSeq(s, k + 1, close - 1)
             url == SubSeq(s, close + 2, paren - 1)
             tag == convertLinkToOutlineTag(text, url)
         IN  (IF tag # None THEN tag ELSE SubSeq(s, k, paren))
                \o ReplaceLinks(s, paren + 1)
    ELSE <<s[k]>> \o ReplaceLinks(s, k + 1)

processLinks(markdown) == ReplaceLinks(markdown, 1)

\* the content pipeline applies processLinks to the markdown it generated
ProcessLinks ==
    /\ lp.phase = "ready"
    /\ lp' = [lp EXCEPT !.phase = "done", !.output = processLinks(lp.input)]
    /\ UNCHANGED <<store, now, clip, stopper, recentClips, ce, msg, sel, dt>>

(***************************************************************************)
(* Inputs of a clip operation: the generated body and the candidate images.*)
(***************************************************************************)

Image(originalUrl, markdownUrl) ==
    [originalUrl |-> originalUrl, markdownUrl |-> markdownUrl, outlineUrl |-> None]

\* http://a/img.png and the body ![x](http://a/img.png)
ExampleUrl == <<"h", "t", "t", "p", ":", "/", "/", "a", "/", "i", "m", "g", ".", "p", "n", "g">>
ExampleBody == <<"!", "[", "x", "]", "(">> \o ExampleUrl \o <<")">>
ExampleInput == [content |-> ExampleBody, images |-> <<Image(ExampleUrl, ExampleUrl)>>]

\* two images referenced by short relative URLs, the first absolute at its source
TwoImagesInput ==
    [content |-> <<"!", "[", "]", "(", "p", ")", " ", "!", "[", "]", "(", "q", ")">>,
     images |-> <<Image(<<"u", "/", "p">>, <<"p">>), Image(<<"q">>, None)>>]

\* a GitHub page: the body names github.com, an image is proxied by camo and
\* is not referenced in the body
GitHubInput ==
    [content |-> GitHubCom \o <<" ">>,
     images |-> <<Image(CamoHost \o <<"/", "x">>, None), Image(<<"y">>, None)>>]

\* an <img> tag whose src differs from the candidate's URL in letter case only
UpperCaseSrcInput ==
    [content |-> <<"<", "I", "M", "G", " ", "S", "R", "C", "=", "'", "A", "/", "B", "'", ">">>,
     images |-> <<Image(<<"a", "/", "b">>, None)>>]

\* a screenshot clip: the image is a data URL (data:image/png;base64,QQ==)
ScreenshotUrl == DataScheme \o ImagePng \o <<";", "b", "a", "s", "e", "6", "4", ",", "Q", "Q", "=", "=">>
ScreenshotInput ==
    [content |-> <<"!", "[", "s", "]", "(">> \o ScreenshotUrl \o <<")">>,
     images |-> <<Image(ScreenshotUrl, None)>>]

\* a candidate that the body does not reference, before one that it does
OrphanInput ==
    [content |-> <<"a", "b">>,
     images |-> <<Image(<<"c">>, None), Image(<<"a", "b">>, <<"b">>)>>]

\* the example body with a first candidate whose source address could not be
\* resolved (no originalUrl): the loop passes over it
UnresolvedInput ==
    [content |-> ExampleBody,
     images |-> <<Image(None, <<"x">>), Image(ExampleUrl, ExampleUrl)>>]

\* two images of which the first's URL is the beginning of the second's
PrefixInput ==
    [content |-> <<"!", "[", "]", "(", "u", ")", " ", "!", "[", "]", "(", "u", "v", ")">>,
     images |-> <<Image(<<"u">>, None), Image(<<"u", "v">>, None)>>]

CuratedInputs ==
    {ExampleInput, TwoImagesInput, GitHubInput, UpperCaseSrcInput,
     ScreenshotInput, OrphanInput, UnresolvedInput, PrefixInput}

\* bounds of the generated inputs
MaxContentLen == 3
MaxImages == 2

GenChars == {"a", "b"}
GenImages ==
    { Image(<<"a">>, None), Image(<<"a", "b">>, <<"b">>) }

\* the sequences over S of length at most n
RECURSIVE SeqsUpTo(_, _)
SeqsUpTo(S, n) ==
    IF n = 0 THEN {<<>>}
    ELSE LET shorter == SeqsUpTo(S, n - 1)
         IN  shorter \cup {Append(q, x) : q \in shorter, x \in S}

GeneratedInputs ==
    {[content |-> s, images |-> imgs] :
        s \in SeqsUpTo(GenChars, MaxContentLen), imgs \in SeqsUpTo(GenImages, MaxImages)}

\* links as the page has them: host, path segments and query parameters
VideoId == <<"a", "b", "c", "1", "2", "3">>
Number == <<"5", "5", "5", "0", "0">>
User == <<"u">>
Param(key, value) == [key |-> key, value |-> value]

LinkHosts ==
    { <<"w", "w", "w", ".", "y", "o", "u", "t", "u", "b", "e", ".", "c", "o", "m">>, YoutubeCom, <<"m", ".", "y", "o", "u", "t", "u", "b", "e", ".", "c", "o", "m">>, YoutuBe,
      VimeoCom, <<"p", "l", "a", "y", "e", "r", ".", "v", "i", "m", "e", "o", ".", "c", "o", "m">>, <<"e", "x", "a", "m", "p", "l", "e", ".", "c", "o", "m">>, <<"d", "r", "o", "p", "b", "o", "x", ".", "c", "o", "m">>,
      TwitterCom, XCom, CodepenIo, GistGithubCom, <<"w", "w", "w", ".", "f", "i", "g", "m", "a", ".", "c", "o", "m">>, MiroCom,
      MapsGoogleCom, <<"w", "w", "w", ".", "g", "o", "o", "g", "l", "e", ".", "c", "o", "m">>,
      YoutubeCom \o <<".">> \o VimeoCom }

LinkPaths ==
    { <<>>, <<<<"w", "a", "t", "c", "h">>>>, <<<<"e", "m", "b", "e", "d">>, VideoId>>, <<<<"v">>, VideoId>>,
      <<VideoId>>, <<Number>>, <<<<"v", "i", "d", "e", "o">>, Number>>,
      <<User, <<"s", "t", "a", "t", "u", "s">>, Number>>, <<User, <<"p", "e", "n">>, VideoId>>,
      <<<<"m", "a", "p", "s">>>>, <<<<"n", "o", "t", "-", "a", "-", "p", "r", "o", "v", "i", "d", "e", "r">>>> }

LinkQueries ==
    { <<>>,
      <<Param(<<"v">>, VideoId)>>,
      <<Param(<<"f", "e", "a", "t", "u", "r", "e">>, <<"s", "h", "a", "r", "e">>), Param(<<"v">>, VideoId)>>,
      <<Param(<<"v">>, VideoId), Param(<<"t">>, <<"1">>)>>,
      <<Param(<<"t">>, <<"1">>)>> }

\* the text around the link: nothing, or words and a second, relative link,
\* or the exclamation mark that makes the link an image reference
LinkContexts ==
    { [before |-> <<>>, after |-> <<>>],
      [before |-> <<"!">>, after |-> <<>>],
      [before |-> <<"s", "e", "e", " ">>, after |-> <<" ", "[", "b", "]", "(", "/", "c", ")">>] }

RECURSIVE PathText(_)
PathText(path) ==
    IF path = <<>> THEN <<>> ELSE <<"/">> \o Head(path) \o PathText(Tail(path))

RECURSIVE ParamsText(_)
ParamsText(query) ==
    IF query = <<>> THEN <<>>
    ELSE Head(query).key \o <<"=">> \o Head(query).value
            \o (IF Len(query) > 1 THEN <<"&">> ELSE <<>>) \o ParamsText(Tail(query))

QueryText(query) == IF query = <<>> THEN <<>> ELSE <<"?">> \o ParamsText(query)

LinkUrl(l) == Https \o l.host \o PathText(l.path) \o QueryText(l.query)

LinkText == <<"t">>

Links == [host : LinkHosts, path : LinkPaths, query : LinkQueries]

(***************************************************************************)
(* Runtime message handlers: ContentScript.handleMessage and               *)
(* OutlineClipper.handleMessage of the content script, handleMessage of    *)
(* the background script.  A reply is recorded by its shape.               *)
(***************************************************************************)

Handlers == {"ContentScript", "OutlineClipper", "background"}

\* an action none of the cases of the switch names
Unknown == "unknown"

\* the cases of the three switch statements
Actions(h) ==
    CASE h = "ContentScript" ->
            {"extractContent", "extractSelection", "highlightContent", "removeHighlight",
             "startSelectionMode", "stopSelectionMode", Unknown}
      [] h = "OutlineClipper" ->
            {"extractContent", "startSelection", "startEvernoteSelection",
             "captureScreenshot", Unknown}
      [] OTHER ->
            {"clip", "clipSelection", "testConnection", "getCollections",
             "getCollectionDocuments", "captureScreenshot", "searchDuplicates",
             "fetchUrl", "clipSelectedContent", "openPopup", "downloadImage", Unknown}

\* the cases that reply without an await
Synchronous(h, a) ==
    \/ h = "ContentScript" /\ a \in {"highlightContent", "removeHighlight",
                                      "startSelectionMode", "stopSelectionMode"}
    \/ h = "OutlineClipper" /\ a \in {"startSelection", "startEvernoteSelection"}
    \/ h = "background" /\ a = "openPopup"

\* the cases that run inside a try whose catch replies: every case but the
\* two selection cases of OutlineClipper.handleMessage
Guarded(h, a) == ~(h = "OutlineClipper" /\ a \in {"startSelection", "startEvernoteSelection"})

\* if (sender.tab?.id) { ... } without an else
NeedsTab(h, a) == h = "background" /\ a \in {"clipSelection", "captureScreenshot"}

\* the senders: an extension page has no tab, and only the background
\* handler looks at the sender
Tabs(h) == IF h = "background" THEN BOOLEAN ELSE {FALSE}

\* how the awaited operation of a case can settle: with its value, with a
\* negative result it reports itself, or by throwing
Results(h, a) ==
    {"value", "throws"} \cup
    (IF h = "background" /\ a \in {"testConnection", "getCollections", "getCollectionDocuments",
                                    "searchDuplicates", "fetchUrl"}
        THEN {"negative"} ELSE {})

\* the reply of a case to the result of its awaited operation
Answer(h, a, r) ==
    IF r = "throws" THEN Failure
    ELSE IF r = "negative" THEN (IF a = "testConnection" THEN BareFalse ELSE Failure)
    ELSE IF h = "background" /\ a = "captureScreenshot" THEN DataUrl
    ELSE Success

MsgOff ==
    [pc |-> "off", action |-> "none", tab |-> FALSE, replies |-> <<>>, rejected |-> FALSE]

NoMessages == [h \in Handlers |-> MsgOff]

\* the listener calls handleMessage, which runs to its first await or to
\* its end
Deliver(h) ==
    /\ msg[h].pc = "off"
    /\ \E a \in Actions(h), tab \in Tabs(h), throws \in BOOLEAN :
        LET m == [MsgOff EXCEPT !.action = a, !.tab = tab]
        IN  msg' = [msg EXCEPT ![h] =
                IF a = Unknown
                    THEN [m EXCEPT !.pc = "returned", !.replies = <<Failure>>]
                ELSE IF NeedsTab(h, a) /\ ~tab
                    THEN [m EXCEPT !.pc = "returned"]
                ELSE IF ~Synchronous(h, a)
                    THEN [m EXCEPT !.pc = "await"]
                ELSE IF ~throws
                    THEN [m EXCEPT !.pc = "returned", !.replies = <<Success>>]
                ELSE IF Guarded(h, a)
                    THEN [m EXCEPT !.pc = "returned", !.replies = <<Failure>>]
                ELSE [m EXCEPT !.pc = "returned", !.rejected = TRUE]]
    /\ UNCHANGED <<store, now, clip, stopper, recentClips, lp, ce, sel, dt>>

\* the awaited operation settles and the case replies
Settle(h) ==
    /\ msg[h].pc = "await"
    /\ \E r \in Results(h, msg[h].action) :
        msg' = [msg EXCEPT ![h].pc = "returned",
                           ![h].replies = Append(@, Answer(h, msg[h].action, r))]
    /\ UNCHANGED <<store, now, clip, stopper, recentClips, lp, ce, sel, dt>>

handleMessage(h) == Deliver(h) \/ Settle(h)

(***************************************************************************)
(* The document tree of a collection (OutlineClient.getCollectionDocuments).*)
(***************************************************************************)

\* the documents a documents.list answer can hold, in the answer's order
MaxDocs == 3

DocIds == <<<<"d", "1">>, <<"d", "2">>, <<"d", "3">>, <<"d", "4">>>>

\* the id of a document that is not in the answer
OtherId == <<"g", "o", "n", "e">>

\* the ids of the documents, the keys of documentMap
IdsOf(documents) == {documents[k].id : k \in DOMAIN documents}

\* the answers of documents.list: n documents with different ids, each
\* without a parent, or with the id of a listed or an unlisted document as
\* its parentDocumentId
DocumentLists ==
    UNION {
        {[k \in 1..n |-> [id |-> DocIds[k], parentDocumentId |-> parent[k]]] :
            parent \in [1..n -> {None, OtherId} \cup {DocIds[j] : j \in 1..n}]} :
        n \in 1..MaxDocs}

\* the first forEach: doc.children = []; documentMap.set(doc.id, doc)
EmptyTree(documents) ==
    [children |-> [id \in IdsOf(documents) |-> <<>>], rootDocuments |-> <<>>]

\* doc.parentDocumentId && documentMap.has(doc.parentDocumentId)
HasListedParent(doc, documents) ==
    doc.parentDocumentId # None /\ doc.parentDocumentId \in IdsOf(documents)

\* the second forEach from document k on: the document is pushed to its
\* parent's children, or to rootDocuments
RECURSIVE LinkDocuments(_, _, _)
LinkDocuments(documents, k, tree) ==
    IF k > Len(documents) THEN tree
    ELSE LET doc == documents[k]
         IN  LinkDocuments(documents, k + 1,
                IF HasListedParent(doc, documents)
                THEN [tree EXCEPT !.children[doc.parentDocumentId] = Append(@, doc.id)]
                ELSE [tree EXCEPT !.rootDocuments = Append(@, doc.id)])

\* buildDocumentTree(documents): the roots and, per document, its children
\* (the documents are shared objects, named here by their ids)
buildDocumentTree(documents) == LinkDocuments(documents, 1, EmptyTree(documents))

DtOff == [phase |-> "off", documents |-> <<>>, tree |-> EmptyTree(<<>>)]

\* getCollectionDocuments: the answer of documents.list goes through
\* buildDocumentTree; a failed request throws
getCollectionDocuments ==
    /\ dt.phase = "listing"
    /\ \E ok \in BOOLEAN :
        dt' = IF ok THEN [dt EXCEPT !.phase = "done", !.tree = buildDocumentTree(dt.documents)]
              ELSE [dt EXCEPT !.phase = "failed"]
    /\ UNCHANGED <<store, now, clip, stopper, recentClips, lp, ce, msg, sel>>

(***************************************************************************)
(* Element-selection mode of the content script (OutlineClipper).          *)
(***************************************************************************)

\* null, as an identifier and as the value of selectionModeData
Null == "null"
NullData == [null |-> TRUE]

\* a TypeError in place of a message
TypeError == [action |-> "TypeError"]

\* the data of a startEvernoteSelection message: a temporary selection for
\* the popup, or the target of the clip
SelectionData ==
    {[temporary |-> TRUE, collectionId |-> Null]} \cup
    {[temporary |-> FALSE, collectionId |-> id] : id \in {"c1", "c2"}}

\* the clickable elements: a page element and the selection guide
Elements == {"article", "guide"}

\* isOverlayElement(target)
isOverlayElement(target) == target = "guide"

\* extractor.extractElementContent(element)
extractElementContent(element) == <<"content of", element>>

\* the clicks a run handles
MaxClicks == 2

\* selectionMode, selectionModeData, selectedElement: the fields of the
\* instance; handlers: the calls of handleElementClick, each with the
\* element it selected, the data and the mode it left behind at its await,
\* where it stands, the messages it sent and whether it threw
SelOff ==
    [selectionMode |-> FALSE, selectionModeData |-> NullData, selectedElement |-> Null,
     handlers |-> <<>>]

\* startEvernoteSelectionMode(data)
startEvernoteSelectionMode ==
    /\ \E data \in SelectionData :
        sel' = [sel EXCEPT !.selectionMode = TRUE, !.selectionModeData = data,
                           !.selectedElement = Null]
    /\ UNCHANGED <<store, now, clip, stopper, recentClips, lp, ce, msg, dt>>

\* stopSelectionMode: this.selectionModeData = null
StoppedData(data) == NullData

\* stopSelectionMode
stopSelectionMode(m) ==
    [m EXCEPT !.selectionMode = FALSE, !.selectionModeData = StoppedData(m.selectionModeData)]

\* handleKeyPress with the Escape key
handleKeyPress ==
    /\ sel.selectionMode
    /\ sel' = stopSelectionMode(sel)
    /\ UNCHANGED <<store, now, clip, stopper, recentClips, lp, ce, msg, dt>>

\* handleElementClick up to its await: a click on the guide is ignored, a
\* click on a page element selects it, ends the mode and starts the
\* extraction
handleElementClick ==
    /\ sel.selectionMode
    /\ Len(sel.handlers) < MaxClicks
    /\ \E target \in Elements :
        IF isOverlayElement(target) THEN sel' = sel
        ELSE LET stopped == stopSelectionMode([sel EXCEPT !.selectedElement = target])
             IN  sel' = [stopped EXCEPT !.handlers = Append(@,
                            [element |-> target, data |-> sel.selectionModeData,
                             modeLeft |-> stopped.selectionMode,
                             pc |-> "extract", sent |-> <<>>, threw |-> FALSE])]
    /\ UNCHANGED <<store, now, clip, stopper, recentClips, lp, ce, msg, dt>>

\* the message of the branch the handler takes after the extraction: null
\* data has no `temporary` and the else branch reads null.collectionId, a
\* TypeError
ClipMessage(data, content) ==
    IF data = NullData THEN TypeError
    ELSE IF data.temporary
    THEN [action |-> "clipSelectedContent", content |-> content, temporary |-> TRUE,
          collectionId |-> Null]
    ELSE [action |-> "clipSelectedContent", content |-> content, temporary |-> FALSE,
          collectionId |-> data.collectionId]

\* handleElementClick after its await: the content is there and the message
\* is built from this.selectionModeData
handleElementClickResume ==
    /\ \E n \in DOMAIN sel.handlers :
        LET h == sel.handlers[n]
            message == ClipMessage(sel.selectionModeData, extractElementContent(h.element))
        IN  /\ h.pc = "extract"
            /\ sel' = [sel EXCEPT !.handlers[n] =
                        IF message = TypeError
                        THEN [h EXCEPT !.pc = "returned", !.threw = TRUE]
                        ELSE [h EXCEPT !.pc = "returned", !.sent = <<message>>]]
    /\ UNCHANGED <<store, now, clip, stopper, recentClips, lp, ce, msg, dt>>

(***************************************************************************)
(* Specifications.                                                         *)
(***************************************************************************)

\* no conversion of the ContentExtractor is part of the specification
CeOff ==
    [op |-> "off", phase |-> "off", input |-> <<>>, base |-> <<>>,
     output |-> <<>>, again |-> <<>>]

\* the link step is not part of the specification
LpOff == [phase |-> "off", link |-> <<>>, context |-> <<>>, input |-> <<>>, output |-> <<>>]

\* one clip operation started from the popup, and the two surfaces that can
\* request a stop
Init ==
    /\ store = NoState
    /\ now = 0
    /\ \E input \in {ExampleInput, TwoImagesInput, ScreenshotInput} :
        clip = [c \in Clips |-> IF c = "message" THEN NewClip(input) ELSE OffClip]
    /\ stopper = [s \in Stoppers |-> IdleStopper]
    /\ recentClips = <<>>
    /\ msg = NoMessages
    /\ sel = SelOff
    /\ dt = DtOff
    /\ lp = LpOff
    /\ ce = CeOff

Next == (\E c \in Clips : ClipStep(c)) \/ (\E s \in Stoppers : StopStep(s))

Spec == Init /\ [][Next]_vars

\* one clip operation alone, over every input
InitSeq ==
    /\ store = NoState
    /\ now = 0
    /\ \E input \in CuratedInputs \cup GeneratedInputs :
        clip = [c \in Clips |-> IF c = "message" THEN NewClip(input) ELSE OffClip]
    /\ stopper = [s \in Stoppers |-> IdleStopper]
    /\ recentClips = <<>>
    /\ msg = NoMessages
    /\ sel = SelOff
    /\ dt = DtOff
    /\ lp = LpOff
    /\ ce = CeOff

NextSeq == \E c \in Clips : ClipStep(c)

SpecSeq == InitSeq /\ [][NextSeq]_vars

\* a clip message and a context-menu clip in one extension process
InitTwoClips ==
    /\ store = NoState
    /\ now = 0
    /\ clip = [c \in Clips |->
                IF c = "message" THEN NewClip(UnresolvedInput) ELSE NewClip(ExampleInput)]
    /\ stopper = [s \in Stoppers |-> IdleStopper]
    /\ recentClips = <<>>
    /\ msg = NoMessages
    /\ sel = SelOff
    /\ dt = DtOff
    /\ lp = LpOff
    /\ ce = CeOff

SpecTwoClips == InitTwoClips /\ [][NextSeq]_vars

\* the clip of the example page at the end of its image loop, before
\* clearState: the download of its image failed
FirstSessionOver ==
    [NewClip(ExampleInput) EXCEPT
        !.pc = "clear", !.todo = <<1>>, !.i = 1, !.task = <<DoneTask>>,
        !.progress = <<0, 1>>, !.state = InitialUploadState(1, 0), !.net = {1}]

\* a clip message whose image loop is over and whose session is about to be
\* cleared, a context-menu clip that has not begun, and the two surfaces
\* that can request a stop
InitNextSession ==
    /\ store = InitialUploadState(1, 0)
    /\ now = 1
    /\ clip = [c \in Clips |->
                IF c = "message" THEN FirstSessionOver ELSE NewClip(UnresolvedInput)]
    /\ stopper = [s \in Stoppers |-> IdleStopper]
    /\ recentClips = <<>>
    /\ msg = NoMessages
    /\ sel = SelOff
    /\ dt = DtOff
    /\ lp = LpOff
    /\ ce = CeOff

SpecNextSession == InitNextSession /\ [][Next]_vars

\* the link step alone, over every link and context
InitLinks ==
    /\ store = NoState
    /\ now = 0
    /\ clip = [c \in Clips |-> OffClip]
    /\ stopper = [s \in Stoppers |-> IdleStopper]
    /\ recentClips = <<>>
    /\ msg = NoMessages
    /\ sel = SelOff
    /\ dt = DtOff
    /\ ce = CeOff
    /\ \E l \in Links, ctx \in LinkContexts :
        lp = [phase |-> "ready", link |-> l, context |-> ctx,
              input |-> ctx.before \o PlainLink(LinkText, LinkUrl(l)) \o ctx.after,
              output |-> <<>>]

NextLinks == ProcessLinks

SpecLinks == InitLinks /\ [][NextLinks]_vars


\* the list after n earlier clips, one after the other: the latest first
EarlierClips(n) == [k \in 1..n |-> RecentClip("earlier", n - k)]

\* a clip at its addRecentClip call, after createDocument
ClipCreated == [OffClip EXCEPT !.pc = "recent_get", !.outcome = "created"]

\* two clips at their addRecentClip calls, after any number of earlier clips
\* that the list can hold
InitRecent ==
    /\ store = NoState
    /\ \E n \in 0..MaxRecentClips :
        /\ now = n
        /\ recentClips = EarlierClips(n)
    /\ clip = [c \in Clips |-> ClipCreated]
    /\ stopper = [s \in Stoppers |-> IdleStopper]
    /\ msg = NoMessages
    /\ sel = SelOff
    /\ dt = DtOff
    /\ lp = LpOff
    /\ ce = CeOff

NextRecent == \E c \in Clips : AddRecentClipGet(c) \/ AddRecentClipSet(c)

SpecRecent == InitRecent /\ [][NextRecent]_vars

\* the three message listeners, one message each
InitMessages ==
    /\ store = NoState
    /\ now = 0
    /\ clip = [c \in Clips |-> OffClip]
    /\ stopper = [s \in Stoppers |-> IdleStopper]
    /\ recentClips = <<>>
    /\ msg = NoMessages
    /\ sel = SelOff
    /\ dt = DtOff
    /\ lp = LpOff
    /\ ce = CeOff

NextMessages == \E h \in Handlers : handleMessage(h)

SpecMessages == InitMessages /\ [][NextMessages]_vars


\* the element-selection mode of one page
InitSelection ==
    /\ store = NoState
    /\ now = 0
    /\ clip = [c \in Clips |-> OffClip]
    /\ stopper = [s \in Stoppers |-> IdleStopper]
    /\ recentClips = <<>>
    /\ msg = NoMessages
    /\ sel = SelOff
    /\ dt = DtOff
    /\ lp = LpOff
    /\ ce = CeOff

NextSelection ==
    \/ startEvernoteSelectionMode
    \/ handleKeyPress
    \/ handleElementClick
    \/ handleElementClickResume

SpecSelection == InitSelection /\ [][NextSelection]_vars

\* one getCollectionDocuments call over every list of documents
InitTree ==
    /\ store = NoState
    /\ now = 0
    /\ clip = [c \in Clips |-> OffClip]
    /\ stopper = [s \in Stoppers |-> IdleStopper]
    /\ recentClips = <<>>
    /\ msg = NoMessages
    /\ sel = SelOff
    /\ lp = LpOff
    /\ ce = CeOff
    /\ \E documents \in DocumentLists :
        dt = [phase |-> "listing", documents |-> documents, tree |-> EmptyTree(documents)]

NextTree == getCollectionDocuments

SpecTree == InitTree /\ [][NextTree]_vars

(***************************************************************************)
(* ContentExtractor: conversions of the extracted page to markdown.        *)
(***************************************************************************)

\* cell.textContent?.trim() || ''
CellText(textContent) == Trim(textContent)

\* '| ' + cells.join(' | ') + ' |\n'
TableLine(cells) == <<"|", " ">> \o Join(cells, <<" ", "|", " ">>) \o <<" ", "|", "\n">>

RECURSIVE TableLines(_)
TableLines(rows) ==
    IF rows = <<>> THEN <<>>
    ELSE TableLine([j \in DOMAIN Head(rows) |-> CellText(Head(rows)[j])])
            \o TableLines(Tail(rows))

\* convertTableToMarkdown(table): rows holds the text content of the cells
\* of table.rows, the first row being the header
convertTableToMarkdown(rows) ==
    IF Len(rows) = 0 THEN <<>>
    ELSE LET headers == [j \in DOMAIN rows[1] |-> CellText(rows[1][j])]
         IN  <<"\n", "\n">>
                \o TableLine(headers)
                \o TableLine([j \in DOMAIN headers |-> <<"-", "-", "-">>])
                \o TableLines(Tail(rows))
                \o <<"\n">>

ConvertTable ==
    /\ ce.op = "table"
    /\ ce.phase = "ready"
    /\ ce' = [ce EXCEPT !.phase = "done", !.output = convertTableToMarkdown(ce.input)]
    /\ UNCHANGED <<store, now, clip, stopper, recentClips, lp, msg, sel, dt>>

\* the characters of a URL scheme after its first letter
SchemeChars ==
    DOMAIN UpperToLower \cup {UpperToLower[c] : c \in DOMAIN UpperToLower}
        \cup Digits \cup {"+", ".", "-"}

\* the position of the colon that ends the scheme of url, 0 when url has none
SchemeEnd(url) ==
    LET e == RunEnd(url, 1, SchemeChars, FALSE)
    IN  IF /\ e > 1 /\ e <= Len(url) /\ url[e] = ":"
           /\ url[1] \notin Digits \cup {"+", ".", "-"}
        THEN e ELSE 0

LowerAll(s) == [j \in DOMAIN s |-> Lower(s[j])]

\* the schemes whose URLs have a host and a path of segments
SpecialSchemes == { <<"h", "t", "t", "p">>, <<"h", "t", "t", "p", "s">>, <<"f", "i", "l", "e">> }

\* the path segments with "." dropped and ".." taking back the segment
\* before it
RECURSIVE RemoveDots(_, _)
RemoveDots(segments, done) ==
    IF segments = <<>> THEN done
    ELSE IF Head(segments) = <<".">> THEN RemoveDots(Tail(segments), done)
    ELSE IF Head(segments) = <<".", ".">>
    THEN RemoveDots(Tail(segments), IF done = <<>> THEN done ELSE SubSeq(done, 1, Len(done) - 1))
    ELSE RemoveDots(Tail(segments), Append(done, Head(segments)))

\* the percent-encoding of the characters the model's paths can hold
RECURSIVE EncodePath(_)
EncodePath(path) ==
    IF path = <<>> THEN <<>>
    ELSE (CASE Head(path) = " " -> <<"%", "2", "0">>
            [] Head(path) = "\"" -> <<"%", "2", "2">>
            [] OTHER -> <<Head(path)>>) \o EncodePath(Tail(path))

\* a path (with its leading slash) in normal form; a final "." or ".."
\* leaves a directory, which ends with a slash
NormalPath(path) ==
    LET segments == Tail(Split(path, <<"/">>))
        kept == RemoveDots(segments, <<>>)
        dir == segments # <<>> /\ segments[Len(segments)] \in {<<".">>, <<".", ".">>}
    IN  <<"/">> \o EncodePath(Join(kept, <<"/">>))
            \o (IF dir /\ kept # <<>> THEN <<"/">> ELSE <<>>)

\* scheme, host and path of a URL of a special scheme that has its two slashes
SplitUrl(url) ==
    LET colon == SchemeEnd(url)
        from == colon + 3
        hostEnd == RunEnd(url, from, {"/"}, TRUE)
    IN  [scheme |-> LowerAll(SubSeq(url, 1, colon - 1)),
         host |-> LowerAll(SubSeq(url, from, hostEnd - 1)),
         path |-> IF hostEnd > Len(url) THEN <<"/">> ELSE SubSeq(url, hostEnd, Len(url))]

\* scheme://host/path in normal form
Serialize(scheme, host, path) ==
    scheme \o <<":", "/", "/">> \o host \o NormalPath(path)

\* a resolution that would put every URL behind the directory of the page
JoinToBase(url, base) ==
    [ok |-> TRUE,
     href |-> SubSeq(base, 1, Len(base) - Len(Split(base, <<"/">>)[Len(Split(base, <<"/">>))])) \o url]

\* new URL(url, base).href for a base of a special scheme: ok is FALSE when
\* the constructor throws (an http(s) URL without a host)
AbsoluteUrl(url, base) ==
    LET u == Trim(url)
        b == SplitUrl(base)
        colon == SchemeEnd(u)
        scheme == LowerAll(SubSeq(u, 1, colon - 1))
        a == SplitUrl(u)
        baseDir == SubSeq(b.path, 1, Len(b.path) - Len(Split(b.path, <<"/">>)[Len(Split(b.path, <<"/">>))]))
    IN  IF colon > 0 /\ scheme \in SpecialSchemes /\ IsAt(u, <<"/", "/">>, colon + 1)
        THEN [ok |-> a.host # <<>> \/ scheme = <<"f", "i", "l", "e">>,
              href |-> Serialize(a.scheme, a.host, a.path)]
        ELSE IF colon > 0
        THEN [ok |-> TRUE, href |-> scheme \o SubSeq(u, colon, Len(u))]
        ELSE IF StartsWith(u, <<"/", "/">>)
        THEN LET h == SplitUrl(b.scheme \o <<":">> \o u)
             IN  [ok |-> h.host # <<>>, href |-> Serialize(h.scheme, h.host, h.path)]
        ELSE IF StartsWith(u, <<"/">>)
        THEN [ok |-> TRUE, href |-> Serialize(b.scheme, b.host, u)]
        ELSE [ok |-> TRUE, href |-> Serialize(b.scheme, b.host, baseDir \o u)]

\* the test that keeps a URL as it is: absolute, data or protocol-relative
KeepsUrl(url) ==
    \/ StartsWith(url, <<"h", "t", "t", "p", ":", "/", "/">>)
    \/ StartsWith(url, Https)
    \/ StartsWith(url, DataScheme)
    \/ StartsWith(url, <<"/", "/">>)

\* markdown.replace(imagePattern, ...) from position k on, with
\* imagePattern /!\[([^\]]*)\]\(([^)]+)\)/g
RECURSIVE ReplaceImages(_, _, _)
ReplaceImages(s, k, base) ==
    IF k > Len(s) THEN <<>>
    ELSE IF s[k] = "!" /\ k < Len(s) /\ LinkAt(s, k + 1)
    THEN LET close == RunEnd(s, k + 2, {"]"}, TRUE)
             paren == RunEnd(s, close + 2, {")"}, TRUE)
             alt == SubSeq(s, k + 2, close - 1)
             url == SubSeq(s, close + 2, paren - 1)
             absolute == AbsoluteUrl(url, base)
         IN  (IF KeepsUrl(url) \/ ~absolute.ok THEN SubSeq(s, k, paren)
              ELSE <<"!">> \o PlainLink(alt, absolute.href))
                \o ReplaceImages(s, paren + 1, base)
    ELSE <<s[k]>> \o ReplaceImages(s, k + 1, base)

\* convertRelativeImageUrls(markdown), base being window.location.href
convertRelativeImageUrls(markdown, base) == ReplaceImages(markdown, 1, base)

\* the pass over the markdown that turndown produced
ConvertRelativeOnce ==
    /\ ce.op = "relative"
    /\ ce.phase = "ready"
    /\ ce' = [ce EXCEPT !.phase = "once",
                         !.output = convertRelativeImageUrls(ce.input, ce.base)]
    /\ UNCHANGED <<store, now, clip, stopper, recentClips, lp, msg, sel, dt>>

\* a second pass over the result of the first
ConvertRelativeAgain ==
    /\ ce.op = "relative"
    /\ ce.phase = "once"
    /\ ce' = [ce EXCEPT !.phase = "twice",
                         !.again = convertRelativeImageUrls(ce.output, ce.base)]
    /\ UNCHANGED <<store, now, clip, stopper, recentClips, lp, msg, sel, dt>>

\* image URLs as a page writes them
ImageUrls ==
    { <<"i", ".", "p", "n", "g">>, <<"/", "i", ".", "p", "n", "g">>, <<".", "/", "i", ".", "p", "n", "g">>, <<".", ".", "/", "i", ".", "p", "n", "g">>, <<".", ".", "/", ".", ".", "/", "i", ".", "p", "n", "g">>,
      <<"a", "/", ".", ".", "/", "i", ".", "p", "n", "g">>, <<"h", "t", "t", "p", ":", "/", "/", "a", "/", "i", ".", "p", "n", "g">>, <<"h", "t", "t", "p", "s", ":", "/", "/", "a", "/", ".", "/", "i", ".", "p", "n", "g">>, <<"/", "/", "a", "/", "i", ".", "p", "n", "g">>,
      <<" ", "/", "/", "a", "/", "i", ".", "p", "n", "g">>, <<"H", "T", "T", "P", ":", "/", "/", "A", "/", "i", ".", "p", "n", "g">>, <<"H", "T", "T", "P", ":", "/", "/">>, <<"i", " ", "j", ".", "p", "n", "g">>,
      <<"i", ".", "p", "n", "g", " ", "\"", "t", "\"">>, ScreenshotUrl, <<"b", "l", "o", "b", ":", "x">>, <<".", ".">> }

\* the address of the page
PageLocations == { <<"h", "t", "t", "p", "s", ":", "/", "/", "s", ".", "i", "o", "/", "d", "/", "p", ".", "h", "t", "m", "l">>, <<"f", "i", "l", "e", ":", "/", "/", "/", "d", "/", "p", ".", "h", "t", "m", "l">>, <<"h", "t", "t", "p", "s", ":", "/", "/", "s", ".", "i", "o">> }

MdImage(alt, url) == <<"!">> \o PlainLink(alt, url)

\* markdown with one image, or with two images and text between them
RelativeInputs ==
    { MdImage(<<"x">>, u) : u \in ImageUrls } \cup
    { <<"a", " ">> \o MdImage(<<>>, u) \o <<" ", "b", " ">> \o MdImage(<<"y">>, v) :
        u \in ImageUrls, v \in { <<"i", ".", "p", "n", "g">>, <<"h", "t", "t", "p", "s", ":", "/", "/", "a", "/", ".", "/", "i", ".", "p", "n", "g">> } }

\* the relative-URL pass alone, run twice over every input
InitRelative ==
    /\ store = NoState
    /\ now = 0
    /\ clip = [c \in Clips |-> OffClip]
    /\ stopper = [s \in Stoppers |-> IdleStopper]
    /\ recentClips = <<>>
    /\ msg = NoMessages
    /\ sel = SelOff
    /\ dt = DtOff
    /\ lp = LpOff
    /\ \E m \in RelativeInputs, b \in PageLocations :
        ce = [CeOff EXCEPT !.op = "relative", !.phase = "ready", !.input = m, !.base = b]

NextRelative == ConvertRelativeOnce \/ ConvertRelativeAgain

SpecRelative == InitRelative /\ [][NextRelative]_vars

\* bounds of the tables: columns and data rows
MaxColumns == 2
MaxDataRows == 1

\* cell texts: a word, a text with a pipe character, a text with spaces
\* around it and a line break in it
CellTexts == { <<"a">>, <<"c", "|", "d">>, <<" ", "e">> \o <<"\n">> \o <<"f", " ">> }

\* the rows of m cells
TableRows(m) == [1..m -> CellTexts]

\* the tables with a header row, n data rows and m columns, and the table
\* without rows
Tables ==
    {<<>>} \cup
    UNION { UNION { [1..(n + 1) -> TableRows(m)] : n \in 0..MaxDataRows } : m \in 1..MaxColumns }

\* the table conversion alone, over every table
InitTable ==
    /\ store = NoState
    /\ now = 0
    /\ clip = [c \in Clips |-> OffClip]
    /\ stopper = [s \in Stoppers |-> IdleStopper]
    /\ recentClips = <<>>
    /\ msg = NoMessages
    /\ sel = SelOff
    /\ dt = DtOff
    /\ lp = LpOff
    /\ \E t \in Tables : ce = [CeOff EXCEPT !.op = "table", !.phase = "ready", !.input = t]

NextTable == ConvertTable

SpecTable == InitTable /\ [][NextTable]_vars

(***************************************************************************)
(* Properties.                                                             *)
(***************************************************************************)

\* every call of uploadImage the clip operations have made, with its image URL
Calls ==
    UNION {{[t |-> clip[c].task[pos],
             url |-> clip[c].images[clip[c].todo[pos]].originalUrl] :
                pos \in DOMAIN clip[c].task} : c \in Clips}

\* C1: a call of uploadImage answered 429 is retried after the first, second
\* and third 429, so that a success after three 429s returns the hosted URL
\* from the fourth attempt; a fourth 429 in a row returns the original URL,
\* and no fifth attempt is ever made.
C1_RetryBudget ==
    \A call \in Calls :
        LET t == call.t
        IN  /\ t.attempts <= 4
            /\ Len(t.waits) <= 3
            /\ t.pc = "backoff" => t.rateLimited /\ t.attempts = Len(t.waits)
            /\ t.pc \in {"download", "slot", "submit", "ret"} =>
                    t.attempts = Len(t.waits) + 1
            /\ t.pc = "ret" /\ t.rateLimited =>
                    t.attempts = 4 /\ Len(t.waits) = 3 /\ t.ret = call.url
            /\ t.pc = "ret" /\ t.ret # call.url =>
                    ~t.rateLimited /\ t.ret = t.fileUrl
                    /\ t.ret \in {FileUrl(a) : a \in AttachmentUrls}

\* three 429s, then the fourth attempt succeeded and returned the hosted URL
C1_Witness ==
    \E call \in Calls :
        /\ call.t.pc = "ret"
        /\ call.t.attempts = 4
        /\ Len(call.t.waits) = 3
        /\ call.t.ret = FileUrl(<<"/", "n", "2">>)
        /\ call.t.ret # call.url

\* C9: the waits before the first, second and third retry of a call are
\* 1000 ms, 2000 ms and 4000 ms.
C9_DoublingWaits ==
    \A call \in Calls :
        \A j \in DOMAIN call.t.waits : call.t.waits[j] = 1000 * Pow(2, j - 1)

\* C2: a stop that is persisted after image i is done and before any request
\* for image i+1 (stopAt = i+1) keeps every request for image i+1 and the
\* later images from being made.
C2_NoRequestAfterStop ==
    \A c \in Clips :
        clip[c].stopAt # 0 =>
            \A pos \in DOMAIN clip[c].task : pos >= clip[c].stopAt => pos \notin clip[c].net

\* a call of uploadImage that is under way or whose result is not yet taken
Active(t) == t.pc \notin {"none", "done"}

\* C3: within one processImagesInContent the calls of uploadImage are made in
\* list order and one at a time: the call under way is the one of the loop's
\* current image, every earlier image is done with (or was passed over for
\* want of a source URL), no later image has been begun, and requests were
\* issued for no image past the current one.
C3_OneUploadAtATime ==
    \A c \in Clips :
        LET k == clip[c]
        IN  /\ \A pos \in DOMAIN k.task :
                Active(k.task[pos]) =>
                    /\ k.pc = "await" /\ pos = k.i + 1
                    /\ \A j \in 1..(pos - 1) :
                            \/ k.task[j].pc = "done"
                            \/ k.images[k.todo[j]].originalUrl = None
                    /\ \A j \in (pos + 1)..Len(k.task) : k.task[j].pc = "none"
            /\ \A pos \in k.net : pos <= k.i + 1
            /\ Cardinality({pos \in DOMAIN k.task : Active(k.task[pos])}) <= 1

\* the second image's upload is under way after the first one's is done
C3_Witness ==
    \E c \in Clips :
        /\ Len(clip[c].task) = 2
        /\ clip[c].task[1].pc = "done"
        /\ clip[c].task[2].pc = "submit"
        /\ clip[c].net = {1, 2}

\* processImagesInContent has left its loop
AfterLoop == {"clear", "create", "recent_get", "recent_set", "done", "failed"}

\* C4: whatever the outcomes of the images, a loop that was not stopped has
\* called uploadImage for every image that has a source URL before it
\* returns the body, processClip goes on to createDocument, and when the clip
\* operation fails it is createDocument that failed.
C4_FailuresContained ==
    \A c \in Clips :
        LET k == clip[c]
        IN  /\ k.pc \in AfterLoop /\ ~k.stopped =>
                \A pos \in DOMAIN k.task :
                    \/ k.task[pos].pc = "done"
                    \/ k.images[k.todo[pos]].originalUrl = None
            /\ k.pc = "failed" => k.outcome \in {"noCollection", "apiError"}
            /\ k.outcome # "none" => k.pc \in {"recent_get", "recent_set", "done", "failed"}

\* the first of two images failed, the second was hosted, the document exists
C4_Witness ==
    \E c \in Clips :
        LET k == clip[c]
        IN  /\ k.pc = "recent_get" /\ k.outcome = "created" /\ ~k.stopped
            /\ k.todo = <<1, 2>>
            /\ k.images[1].outlineUrl = None
            /\ k.images[2].outlineUrl # None

QuotedSrc(content, url) ==
    \E p \in 1..Len(content), q1 \in Quotes, q2 \in Quotes :
        IsAtCI(content, SrcEq \o <<q1>> \o url \o <<q2>>, p)

\* the body names github.com and a candidate is served by the camo proxy
GitHubPage(k) ==
    /\ Includes(k.content, GitHubCom)
    /\ \E n \in DOMAIN k.images : Includes(k.images[n].originalUrl, CamoHost)

RECURSIVE SubstAll(_, _, _)
SubstAll(s, u, h) ==
    IF s = <<>> THEN <<>>
    ELSE IF u # <<>> /\ IsAt(s, u, 1)
    THEN h \o SubstAll(SubSeq(s, Len(u) + 1, Len(s)), u, h)
    ELSE <<s[1]>> \o SubstAll(Tail(s), u, h)

\* C6: the step that takes a successful upload of an image whose reference
\* URL occurs in the body leaves the body with every occurrence of the
\* reference URL replaced by the hosted URL, and nothing else changed.
C6_EveryOccurrenceReplaced ==
    [][\A c \in Clips :
        LET k == clip[c]
            image == CurrentImage(k)
            hosted == k.task[k.i + 1].ret
        IN  (/\ k.pc = "await" /\ clip'[c].pc # "await"
             /\ hosted # image.originalUrl
             /\ Includes(k.processedContent, RefUrl(image)))
            => clip'[c].processedContent = SubstAll(k.processedContent, RefUrl(image), hosted)]_vars

\* the example: ![x](http://a/img.png) became ![x](http://host/new.png)
C6_Witness ==
    /\ clip["message"].content = ExampleBody
    /\ clip["message"].pc = "create"
    /\ clip["message"].processedContent =
            <<"!", "[", "x", "]", "(", "h", "t", "t", "p", ":", "/", "/", "h", "o", "s",
              "t", "/", "n", "e", "w", ".", "p", "n", "g", ")">>

\* processImagesInContent has returned
Returned == {"create", "recent_get", "recent_set", "done", "failed"}

\* C7: once processImagesInContent has returned, the persisted upload state
\* is absent (no other session is started in this specification).
C7_StateAbsentAfterReturn ==
    \A c \in Clips : clip[c].pc \in Returned => store = NoState

\* C8: no two clip operations are in their upload session at the same time.
C8_OneSession ==
    Cardinality({c \in Clips : InSession(clip[c])}) <= 1

\* the value of the first parameter named key, None when there is none
RECURSIVE QueryValue(_, _)
QueryValue(query, key) ==
    IF query = <<>> THEN None
    ELSE IF Head(query).key = key THEN Head(query).value
    ELSE QueryValue(Tail(query), key)

OnYoutubeCom(l) ==
    l.host \in {YoutubeCom, <<"w", "w", "w", ".", "y", "o", "u", "t", "u", "b", "e", ".", "c", "o", "m">>, <<"m", ".", "y", "o", "u", "t", "u", "b", "e", ".", "c", "o", "m">>}

\* the video id a usual YouTube link carries: the path of a youtu.be link,
\* the segment after /embed/ or /v/, or the query parameter v of a watch
\* link wherever it stands in the query string
CarriedId(l) ==
    IF l.host = YoutuBe /\ Len(l.path) = 1 THEN l.path[1]
    ELSE IF OnYoutubeCom(l) /\ Len(l.path) = 2 /\ l.path[1] \in {<<"e", "m", "b", "e", "d">>, <<"v">>}
    THEN l.path[2]
    ELSE IF OnYoutubeCom(l) /\ l.path = <<<<"w", "a", "t", "c", "h">>>> THEN QueryValue(l.query, <<"v">>)
    ELSE None

Numeric(segment) ==
    segment # <<>> /\ \A j \in DOMAIN segment : segment[j] \in Digits

OnVimeo(l) == l.host \in {VimeoCom, <<"p", "l", "a", "y", "e", "r", ".", "v", "i", "m", "e", "o", ".", "c", "o", "m">>}

\* a host that belongs to no provider of the table
Unlisted(l) == l.host = <<"e", "x", "a", "m", "p", "l", "e", ".", "c", "o", "m">>

\* the markdown with the link replaced by tag
Around(tag) == lp.context.before \o tag \o lp.context.after

\* C10: processLinks turns a YouTube link that carries a video id into
\* @[youtube](ID), a Vimeo link with a numeric path segment into
\* @[vimeo](digits), and leaves the link of an unlisted host as it is.
C10_EmbedTags ==
    lp.phase = "done" =>
        LET l == lp.link
        IN  /\ CarriedId(l) # None =>
                    lp.output = Around(EmbedTag(<<"y", "o", "u", "t", "u", "b", "e">>, CarriedId(l)))
            /\ (OnVimeo(l) /\ \E n \in DOMAIN l.path : Numeric(l.path[n])) =>
                    \E n \in DOMAIN l.path :
                        /\ Numeric(l.path[n])
                        /\ lp.output = Around(EmbedTag(<<"v", "i", "m", "e", "o">>, l.path[n]))
            /\ Unlisted(l) => lp.output = lp.input

\* the names of the embed tags
Providers ==
    { <<"y", "o", "u", "t", "u", "b", "e">>, <<"t", "w", "e", "e", "t">>, <<"c", "o", "d", "e", "p", "e", "n">>, <<"g", "i", "s", "t">>,
      <<"f", "i", "g", "m", "a">>, <<"m", "i", "r", "o">>, <<"g", "o", "o", "g", "l", "e", "m", "a", "p", "s">>, <<"v", "i", "m", "e", "o">> }

\* out is the markdown with the link replaced by `@[p](X)`, X a non-empty
\* part of the URL (the whole URL included) without a closing parenthesis
IsMarker(out, p, url) ==
    LET from == Len(lp.context.before) + Len(p) + 5
        to == Len(out) - Len(lp.context.after) - 1
        X == SubSeq(out, from, to)
    IN  /\ from <= to
        /\ out = Around(EmbedTag(p, X))
        /\ Includes(url, X)
        /\ \A j \in DOMAIN X : X[j] # ")"

\* C11: processLinks leaves a link as the unchanged [text](url) or turns it
\* into a marker @[provider](X) with a non-empty X taken from the URL; a
\* provider whose domain matches while its extraction fails gives way to the
\* later rules (a Vimeo number is still found on a host that also names
\* youtube.com) and at last to the plain link; the text around the link,
\* with its link to an unparsable URL, stays as it is.
C11_WellFormedOutput ==
    lp.phase = "done" =>
        LET l == lp.link
            url == LinkUrl(l)
        IN  /\ \/ lp.output = lp.input
               \/ \E p \in Providers : IsMarker(lp.output, p, url)
            /\ (l.host \in {TwitterCom, XCom} /\ l.path \in {<<>>, <<<<"w", "a", "t", "c", "h">>>>, <<VideoId>>})
                    => lp.output = lp.input
            /\ (l.host = YoutubeCom \o <<".">> \o VimeoCom /\ l.path = <<Number>>)
                    => lp.output = Around(EmbedTag(<<"v", "i", "m", "e", "o">>, Number))

\* a twitter.com link without a status id stayed plain, next to a link
\* whose URL does not parse
C11_Witness ==
    /\ lp.phase = "done"
    /\ lp.link.host = TwitterCom
    /\ lp.link.path = <<<<"w", "a", "t", "c", "h">>>>
    /\ lp.context.after # <<>>
    /\ lp.output = lp.input

\* the lines of a text that are not empty
TextLines(text) == SelectSeq(Split(text, <<"\n">>), LAMBDA line : line # <<>>)

\* the number of pipe characters of a line
Pipes(line) == Cardinality({j \in DOMAIN line : line[j] = "|"})

\* C12: a table with a header row, N data rows and M columns becomes N+2
\* lines, each with M+1 pipe characters.
C12_PipeTableShape ==
    (ce.op = "table" /\ ce.phase = "done" /\ ce.input # <<>>) =>
        LET lines == TextLines(ce.output)
        IN  /\ Len(lines) = Len(ce.input) + 1
            /\ \A n \in DOMAIN lines : Pipes(lines[n]) = Len(ce.input[1]) + 1

\* C13: a second pass of convertRelativeImageUrls changes nothing.
C13_Idempotent ==
    (ce.op = "relative" /\ ce.phase = "twice") => ce.again = ce.output

\* a relative URL was made absolute by the first pass, and the second pass
\* left the result alone
C13_Witness ==
    /\ ce.op = "relative" /\ ce.phase = "twice"
    /\ ce.input = MdImage(<<"x">>, <<".", ".", "/", "i", ".", "p", "n", "g">>)
    /\ ce.base = <<"h", "t", "t", "p", "s", ":", "/", "/", "s", ".", "i", "o", "/", "d", "/", "p", ".", "h", "t", "m", "l">>
    /\ ce.output = MdImage(<<"x">>, <<"h", "t", "t", "p", "s", ":", "/", "/", "s", ".", "i", "o", "/", "i", ".", "p", "n", "g">>)
    /\ ce.again = ce.output

\* C14: every message delivered to a runtime message handler has, once the
\* handler has returned, exactly one reply, and the reply is shaped
\* {success:true,...} or {success:false,error}; an exception inside the
\* handler yields the second shape.
C14_ExactlyOneShapedReply ==
    \A h \in Handlers :
        msg[h].pc = "returned" =>
            /\ Len(msg[h].replies) = 1
            /\ msg[h].replies[1] \in {Success, Failure}
            /\ ~msg[h].rejected

\* the entries of the recent-clip list
Recorded == { recentClips[n].clip : n \in 1..Len(recentClips) }

\* C15: a clip whose createDocument call failed with a remote API error
\* ends with the structured failure {success:false,error} delivered to its
\* caller and without a recent-clip entry, never with an unhandled
\* rejection, whether a message or the context menu started it.
C15_FailureDelivered ==
    \A c \in Clips :
        clip[c].outcome = "apiError" =>
            /\ clip[c].reply = Failure
            /\ c \notin Recorded

\* C16: whatever the interleaving of the addRecentClip calls at their
\* awaits, the stored list has at most 10 entries, its timestamps decrease
\* from the front, and its first entry is the one of the latest completed
\* call (the call that read the clock last).
C16_CappedMostRecentFirst ==
    /\ Len(recentClips) <= 10
    /\ \A n \in 1..(Len(recentClips) - 1) :
        recentClips[n].timestamp > recentClips[n + 1].timestamp
    /\ recentClips # <<>> => recentClips[1].timestamp = now - 1

\* two calls that interleaved at their awaits on a list of nine entries:
\* both completed, the list is full and holds the later call's entry only
C16_Witness ==
    /\ \A c \in Clips : clip[c].pc = "done"
    /\ Len(recentClips) = 10
    /\ recentClips[1].clip = "message"
    /\ "contextMenu" \notin Recorded

\* the value of the pipeline's latest updateProgress call: the index of the
\* round it is in once the round's write is made, the index of the round
\* before until then, and 0 of the initial record before the first write
LatestProgress(k) ==
    IF k.pc \in {"delay", "await"} THEN k.i
    ELSE IF k.i = 0 THEN 0
    ELSE k.i - 1

\* shouldStop, once persisted, stays until the record is removed
StopKept == StopRequested(store) /\ store' # NoState => StopRequested(store')

\* the persisted currentIndex is the pipeline's latest progress write
ProgressKept == store # NoState => store.currentIndex = LatestProgress(clip["message"])

\* C17: however requestStop and updateProgress interleave, a shouldStop that
\* requestStop persisted during an active session stays true until the
\* session clears the record, and currentIndex holds the pipeline's latest
\* progress write.
C17_StopAndProgressKept == [][StopKept /\ ProgressKept']_vars

\* a call of which a request was answered 401 has returned the original URL,
\* and it slept after none of its attempts but the ones before
ReturnedAtOnce(k, pos) ==
    LET t == k.task[pos]
    IN  t.unauthorized =>
            /\ t.pc = "ret"
            /\ t.ret = k.images[k.todo[pos]].originalUrl
            /\ Len(t.waits) = t.attempts - 1

\* the one step such a call still takes part in is the loop taking its
\* result and going on to the next image (or, after the last one, to the end)
GoesOn(c, pos) ==
    clip[c].task[pos].unauthorized /\ clip'[c].task[pos] # clip[c].task[pos] =>
        /\ clip'[c].task[pos] = DoneTask
        /\ clip'[c].i = pos
        /\ clip'[c].pc = NextPc(pos, Len(clip[c].todo))

\* C18: when a request of an upload attempt is answered with status 401,
\* uploadImage returns the original URL at once, without a retry and without
\* a backoff delay, and the loop goes on to the next image.
C18_UnauthorizedReturnsAtOnce ==
    [][\A c \in Clips :
        /\ \A pos \in DOMAIN clip'[c].task : ReturnedAtOnce(clip'[c], pos)
        /\ \A pos \in DOMAIN clip[c].task : GoesOn(c, pos)]_vars

\* the loop is done with the first image, and a request of the second
\* attempt of the second image was answered 401 after a 429 of the first
C18_Witness ==
    \E c \in Clips :
        /\ Len(clip[c].task) = 2
        /\ clip[c].task[1].pc = "done"
        /\ clip[c].task[2].unauthorized
        /\ clip[c].task[2].attempts = 2

\* a request of the attempt is pending only after the steps before it: the
\* slot request after bytes that passed the size and MIME checks, the byte
\* submission after a slot answer of the same attempt as well
StepsInOrder(t) ==
    /\ t.pc \in {"slot", "submit"} =>
        /\ t.blob # NoBlob
        /\ t.blob.size <= 10 * 1024 * 1024
        /\ StartsWith(t.blob.mime, ImagePrefix)
    /\ t.pc = "submit" => t.fileUrl # None
    /\ t.pc = "download" => t.blob = NoBlob /\ t.fileUrl = None

\* the byte submission is issued by the step that takes the slot answer, and
\* the slot request by the step that takes the bytes: the download's answer,
\* or for a data URL the entry into the attempt
IssuedInOrder(t, u) ==
    /\ u.pc = "submit" /\ t.pc # "submit" => t.pc = "slot" /\ u.attempts = t.attempts
    /\ u.pc = "slot" /\ t.pc # "slot" =>
        \/ t.pc = "download" /\ u.attempts = t.attempts
        \/ t.pc \in {"none", "backoff"} /\ u.attempts = t.attempts + 1

\* C19: within one attempt of uploadImage the steps are ordered download or
\* data-URL decode, size and MIME check, slot request, byte submission: no
\* slot request is issued for a source of more than 10MB or of a non-image
\* MIME type, and no byte submission without a successful slot answer of the
\* same attempt.
C19_StepsInOrder ==
    [][\A c \in Clips :
        \A pos \in DOMAIN clip'[c].task :
            /\ StepsInOrder(clip'[c].task[pos])
            /\ pos \in DOMAIN clip[c].task =>
                IssuedInOrder(clip[c].task[pos], clip'[c].task[pos])]_vars

\* the bytes of a second attempt are submitted after the slot answer of that
\* attempt
C19_Witness ==
    \E call \in Calls :
        /\ call.t.pc = "submit"
        /\ call.t.attempts = 2
        /\ call.t.fileUrl # None
        /\ call.t.blob.size = MaxBytes

\* the loop is done with image i (i >= 1) and has not begun the next round
ImageProcessed(k) == k.pc \in {"check", "clear"} /\ k.i >= 1

\* the latest call of the progress callback was made with (i, total)
CallbackReports(k) == k.progress = <<k.i, Len(k.todo)>>

\* the persisted record reports i of total
StateReports(k) ==
    /\ store # NoState
    /\ store.currentIndex = k.i
    /\ store.totalImages = Len(k.todo)

\* C20: after each image is processed, whether its upload succeeded or
\* failed, the progress callback has been called with (images processed so
\* far, total), and the persisted currentIndex and totalImages report the
\* same progress.
C20_ProgressReported ==
    \A c \in Clips :
        ImageProcessed(clip[c]) => CallbackReports(clip[c]) /\ StateReports(clip[c])

\* the step from k to k2 is the loop taking the result of uploadImage
TakesResult(k, k2) == k.pc = "await" /\ k2.pc # "await"

\* the step leaves the source URLs of every image alone, and it sets an
\* outlineUrl only when it takes a result other than the image's originalUrl,
\* on that image and to that result
ImagesFramed(k, k2) ==
    \A n \in DOMAIN k.images :
        /\ k2.images[n].originalUrl = k.images[n].originalUrl
        /\ k2.images[n].markdownUrl = k.images[n].markdownUrl
        /\ k2.images[n].outlineUrl # k.images[n].outlineUrl =>
            /\ TakesResult(k, k2)
            /\ n = k.todo[k.i + 1]
            /\ k.task[k.i + 1].ret # k.images[n].originalUrl
            /\ k2.images[n].outlineUrl = k.task[k.i + 1].ret

\* a step that takes the original URL as the result changes neither the
\* body nor any image
FailureFramed(k, k2) ==
    TakesResult(k, k2) /\ k.task[k.i + 1].ret = CurrentImage(k).originalUrl =>
        /\ k2.processedContent = k.processedContent
        /\ k2.images = k.images

\* C21: when uploadImage returns the original URL for an image, the step
\* leaves the body unchanged and the image without outlineUrl; outlineUrl is
\* set only on an image whose upload returned a URL other than its
\* originalUrl, and no step changes an image's originalUrl or markdownUrl.
C21_FailureLeavesNoTrace ==
    [][\A c \in Clips :
        ImagesFramed(clip[c], clip'[c]) /\ FailureFramed(clip[c], clip'[c])]_vars

\* the upload of the first image failed: the loop is at the second round
\* with the body it began with and the first image without outlineUrl
C21_Witness ==
    \E c \in Clips :
        LET k == clip[c]
        IN  /\ k.pc = "check" /\ k.i = 1
            /\ k.task[1].pc = "done"
            /\ k.images[k.todo[1]].originalUrl # None
            /\ k.images[k.todo[1]].outlineUrl = None
            /\ k.processedContent = k.content

\* the images of the batch whose reference URL stands at the head of s
RefsAt(s, k) == { n \in 1..Len(k.todo) : IsAt(s, RefUrl(k.images[k.todo[n]]), 1) }

\* of these the one with the longest reference URL, the earliest of the
\* batch among equals: the reference that stands there in full
OwnRef(s, k) ==
    CHOOSE n \in RefsAt(s, k) :
        \A m \in RefsAt(s, k) :
            LET ln == Len(RefUrl(k.images[k.todo[n]]))
                lm == Len(RefUrl(k.images[k.todo[m]]))
            IN  ln > lm \/ (ln = lm /\ n <= m)

\* s with every image reference replaced by the hosted URL of its own image
RECURSIVE SubstOwn(_, _)
SubstOwn(s, k) ==
    IF s = <<>> THEN <<>>
    ELSE IF RefsAt(s, k) # {}
    THEN LET img == k.images[k.todo[OwnRef(s, k)]]
         IN  img.outlineUrl \o SubstOwn(SubSeq(s, Len(RefUrl(img)) + 1, Len(s)), k)
    ELSE <<s[1]>> \o SubstOwn(Tail(s), k)

\* a batch of several images, each referenced in the body as it is written
\* there, and each uploaded successfully
AllHosted(k) ==
    /\ k.pc = "create"
    /\ Len(k.todo) >= 2
    /\ \A n \in 1..Len(k.todo) :
        LET img == k.images[k.todo[n]]
        IN  /\ img.outlineUrl # None
            /\ Includes(k.content, RefUrl(img))

\* C22: when the images of a batch all upload successfully, the returned
\* body has each image's reference replaced by that image's own hosted URL,
\* also when one reference URL is the beginning or a part of another's.
C22_OwnHostedUrl ==
    \A c \in Clips :
        AllHosted(clip[c]) => clip[c].processedContent = SubstOwn(clip[c].content, clip[c])

\* C23: in element-selection mode started with non-temporary data, a click
\* on a page element results in exactly one clipSelectedContent message that
\* carries the collectionId of that data and the content of the element, and
\* the click leaves selection mode off.
C23_OneMessagePerClick ==
    \A n \in DOMAIN sel.handlers :
        LET h == sel.handlers[n]
        IN  h.data # NullData /\ ~h.data.temporary =>
                /\ ~h.modeLeft
                /\ h.pc = "returned" =>
                    /\ ~h.threw
                    /\ h.sent = <<[action |-> "clipSelectedContent",
                                   content |-> extractElementContent(h.element),
                                   temporary |-> FALSE,
                                   collectionId |-> h.data.collectionId]>>

\* the input is a markdown image reference ![t](url)
ImageReference == lp.context.before = <<"!">>

\* C24: processLinks leaves a markdown image reference as it is, character
\* for character, for every image URL, URLs on provider domains included.
C24_ImagesUntouched ==
    lp.phase = "done" /\ ImageReference => lp.output = lp.input

\* requestStop writes its record in this step
StopWritten(s) == stopper[s].pc = "got" /\ stopper'[s].pc = "idle"

\* requestStop was called while no upload session was active, and before
\* the session of the persisted record began
ReadBeforeSession(s) ==
    stopper[s].quiet /\ store # NoState /\ stopper[s].at <= store.startTime

\* C25: a stop requested while no upload session is active has no effect:
\* requestStop returns without a write when the record is absent or has
\* isUploading false, every session starts with shouldStop = false, and a
\* stop requested before a session began leaves the record of that session
\* as it is, so that it never cancels the session.
C25_StopBeforeSessionHarmless ==
    [][\A s \in Stoppers :
        /\ stopper[s].pc = "idle" /\ ~StopApplies(store) => stopper'[s].pc = "idle"
        /\ (\E c \in Clips : clip[c].pc = "idle" /\ clip'[c].pc \in {"check", "clear"})
                => ~StopRequested(store')
        /\ StopWritten(s) /\ ReadBeforeSession(s) => store' = store]_vars

\* the answer to fetch(imageUrl) was a network error or a non-OK status
FetchFailed(t) == t.fetched \cap {0, 401, 429} # {}

\* C26: when the download of the source image fails (a network error or a
\* non-OK status, 429 of the image host included), uploadImage returns the
\* original URL in the same step: it does not wait, it does not enter a further
\* attempt, and it issues no request to the wiki service.
C26_DownloadFailureReturnsOriginal ==
    [][\A c \in Clips :
        \A pos \in DOMAIN clip'[c].task :
            LET t == clip[c].task[pos]
                u == clip'[c].task[pos]
            IN  FetchFailed(u) =>
                    /\ u.pc = "ret"
                    /\ u.ret = clip[c].images[clip[c].todo[pos]].originalUrl
                    /\ u.fileUrl = None /\ u.blob = NoBlob
                    /\ t.pc = "download" =>
                        /\ u.attempts = t.attempts
                        /\ u.retryCount = t.retryCount
                        /\ u.waits = t.waits]_vars

\* a download was answered 429 and the call has returned the original URL
C26_Witness ==
    \E pos \in DOMAIN clip["message"].task :
        LET t == clip["message"].task[pos]
        IN  t.fetched = {429} /\ t.pc = "ret"

\* the domains of the provider whose embed tag is named p
ProviderDomains(p) ==
    CASE p = <<"y", "o", "u", "t", "u", "b", "e">> -> {YoutubeCom, YoutuBe}
      [] p = <<"t", "w", "e", "e", "t">> -> {TwitterCom, XCom}
      [] p = <<"c", "o", "d", "e", "p", "e", "n">> -> {CodepenIo}
      [] p = <<"g", "i", "s", "t">> -> {GistGithubCom}
      [] p = <<"f", "i", "g", "m", "a">> -> {FigmaCom}
      [] p = <<"m", "i", "r", "o">> -> {MiroCom}
      [] p = <<"g", "o", "o", "g", "l", "e", "m", "a", "p", "s">> -> {MapsGoogleCom, GoogleCom}
      [] p = <<"v", "i", "m", "e", "o">> -> {VimeoCom}

\* host is the domain d or a subdomain of it
OnDomain(host, d) ==
    \/ host = d
    \/ Len(host) > Len(d) + 1 /\ IsAt(host, <<".">> \o d, Len(host) - Len(d))

\* C27: processLinks emits the embed marker of a provider only for a URL
\* whose hostname is a domain of that provider or a subdomain of one, never
\* for a host whose name merely contains the domain.
C27_MarkerOnlyOnProviderHost ==
    lp.phase = "done" =>
        \A p \in Providers :
            IsMarker(lp.output, p, LinkUrl(lp.link)) =>
                \E d \in ProviderDomains(p) : OnDomain(lp.link.host, d)

\* C28: processLinks is idempotent: processLinks(processLinks(m)) =
\* processLinks(m) for every markdown m, links to the providers embedded by
\* their full URL (figma.com, miro.com, Google Maps) included.
C28_Idempotent ==
    lp.phase = "done" => processLinks(lp.output) = lp.output

\* the clip whose session the persisted record belongs to, while it runs
SessionOf(c) == InSession(clip[c]) /\ store # NoState

\* C29: during one upload session the persisted currentIndex never decreases
\* and satisfies 0 <= currentIndex < totalImages, and totalImages stays the
\* number of images selected for upload when the session started.
C29_ProgressInRange ==
    [][\A c \in Clips :
        /\ SessionOf(c) =>
            /\ 0 <= store.currentIndex
            /\ store.currentIndex < store.totalImages
            /\ store.totalImages = Len(clip[c].todo)
        /\ SessionOf(c) /\ (SessionOf(c))' =>
            store'.currentIndex >= store.currentIndex]_vars

\* how often id stands in the sequence ids
Count(ids, id) == Cardinality({k \in DOMAIN ids : ids[k] = id})

RECURSIVE SumOver(_, _)
SumOver(f, S) ==
    IF S = {} THEN 0
    ELSE LET x == CHOOSE y \in S : TRUE IN f[x] + SumOver(f, S \ {x})

\* the places of the forest where the document id stands
Places(tree, id) ==
    Count(tree.rootDocuments, id)
        + SumOver([p \in DOMAIN tree.children |-> Count(tree.children[p], id)],
                  DOMAIN tree.children)

\* the documents found by going down from the documents of `from`, n times
RECURSIVE Descend(_, _, _)
Descend(tree, from, n) ==
    IF n = 0 THEN from
    ELSE Descend(tree,
                 from \cup UNION {{tree.children[p][k] : k \in DOMAIN tree.children[p]} : p \in from},
                 n - 1)

\* the documents reachable from the returned roots
Reachable(tree) ==
    Descend(tree, {tree.rootDocuments[k] : k \in DOMAIN tree.rootDocuments},
            Cardinality(DOMAIN tree.children))

\* every document stands at one place: among the roots, or among the
\* children of the document its parentDocumentId names
PlacedOnce ==
    \A k \in DOMAIN dt.documents :
        LET doc == dt.documents[k]
        IN  /\ Places(dt.tree, doc.id) = 1
            /\ \/ Count(dt.tree.rootDocuments, doc.id) = 1
               \/ /\ doc.parentDocumentId \in DOMAIN dt.tree.children
                  /\ Count(dt.tree.children[doc.parentDocumentId], doc.id) = 1

\* C30: buildDocumentTree places every input document exactly once in the
\* returned forest, as a root or as a child of the document its
\* parentDocumentId names, and every input document is reachable from the
\* returned roots, whatever the parents are (a missing parent, a document
\* that is its own parent, a cycle of parents).
C30_EveryDocumentInForest ==
    dt.phase = "done" =>
        /\ PlacedOnce
        /\ Reachable(dt.tree) = IdsOf(dt.documents)

====
